---- MODULE Spec2Model ----
(***************************************************************************)
(* Virtual I2C bus and MPU-6050 emulator                                   *)
(* (tests/e2e/simulator/i2c_simulator.c, mpu6050_virtual.c, simulator.h).  *)
(*                                                                         *)
(* The state is the global i2c_simulator_t: two buses with their slot      *)
(* tables and the table of mpu6050_state_t indexed by address % 128.       *)
(* Wall-clock fields (timestamps, start times) and the performance metrics *)
(* are not part of the modelled state: no register, FIFO or return code    *)
(* depends on them.                                                        *)
(***************************************************************************)
EXTENDS Integers, Sequences, FiniteSets, TLC

----------------------------------------------------------------------------
(* Program constants (simulator.h)                                         *)

MPU6050_WHO_AM_I == 117
MPU6050_PWR_MGMT_1 == 107
MPU6050_PWR_MGMT_2 == 108
MPU6050_ACCEL_CONFIG == 28
MPU6050_GYRO_CONFIG == 27
MPU6050_ACCEL_XOUT_H == 59
MPU6050_ACCEL_XOUT_L == 60
MPU6050_ACCEL_YOUT_H == 61
MPU6050_ACCEL_YOUT_L == 62
MPU6050_ACCEL_ZOUT_H == 63
MPU6050_ACCEL_ZOUT_L == 64
MPU6050_TEMP_OUT_H == 65
MPU6050_TEMP_OUT_L == 66
MPU6050_GYRO_XOUT_H == 67
MPU6050_GYRO_XOUT_L == 68
MPU6050_GYRO_YOUT_H == 69
MPU6050_GYRO_YOUT_L == 70
MPU6050_GYRO_ZOUT_H == 71
MPU6050_GYRO_ZOUT_L == 72
MPU6050_FIFO_COUNTH == 114
MPU6050_FIFO_COUNTL == 115
MPU6050_FIFO_R_W == 116
MPU6050_USER_CTRL == 106
MPU6050_FIFO_EN == 35
MPU6050_WHO_AM_I_VALUE == 104

MAX_I2C_DEVICES == 128
I2C_BUS_COUNT == 2
FIFO_BUFFER_SIZE == 1024

ERROR_NONE == 0
ERROR_DEVICE_NOT_FOUND == 1
ERROR_TIMEOUT == 2
ERROR_BUS_ERROR == 3
ERROR_CORRUPT_DATA == 4
ERROR_INTERMITTENT == 5
ERROR_COUNT == 6

PATTERN_STATIC == 0
PATTERN_SINE_WAVE == 1
PATTERN_NOISE == 2
PATTERN_GRAVITY_ONLY == 3
PATTERN_ROTATION == 4
PATTERN_VIBRATION == 5
PATTERN_COUNT == 6

POWER_OFF == 0
POWER_SLEEP == 1
POWER_CYCLE == 2
POWER_ON == 3
POWER_COUNT == 4

ACCEL_SCALE_2G == 16384
GYRO_SCALE_250DPS == 131

(* errno values returned (negated) by the operations *)
EIO == 5
ENOMEM == 12
EACCES == 13
EEXIST == 17
ENODEV == 19
EINVAL == 22
ENOTSUP == 95
ETIMEDOUT == 110

(* widths of the C integer types *)
UINT8_MOD == 256
UINT16_MOD == 65536

(* device_data == NULL *)
NULL == -1

----------------------------------------------------------------------------
(* Bit and integer helpers                                                 *)

(* value & mask != 0, for a single-bit mask *)
HasBit(value, mask) == (value \div mask) % 2 = 1

(* value |= mask, for a single-bit mask *)
SetBit(value, mask) == IF HasBit(value, mask) THEN value ELSE value + mask

(* value &= ~mask, for a single-bit mask *)
ClearBit(value, mask) == IF HasBit(value, mask) THEN value - mask ELSE value

(* C conversion double -> int16_t truncates toward zero *)
TruncDiv(a, b) == IF a >= 0 THEN a \div b ELSE -((-a) \div b)

(* (v >> 8) & 0xFF of an int16_t *)
HighByte(v) == ((v + UINT16_MOD) % UINT16_MOD) \div 256

(* v & 0xFF of an int16_t *)
LowByte(v) == ((v + UINT16_MOD) % UINT16_MOD) % 256

----------------------------------------------------------------------------
(* Sensor-data generator.  Time is sample_num / 1000 s.  The code evaluates *)
(* sin()/cos() and rand(); the value u in {-1, 0, 1} is the value of that   *)
(* sine term (or of the noise factor in [-1, 1]) at its extremes and zero,  *)
(* supplied by the caller of the generator.  Amplitudes are kept in tenths  *)
(* so that the double -> int16_t truncation is the code's.                  *)

generate_accel_data(pattern, axis, sample_num, u) ==
    LET base_value == IF axis = 2 /\ pattern # PATTERN_NOISE
                      THEN ACCEL_SCALE_2G ELSE 0
    IN  CASE pattern = PATTERN_STATIC -> base_value
          [] pattern = PATTERN_SINE_WAVE ->
                base_value + TruncDiv(ACCEL_SCALE_2G * u, 10)
          [] pattern = PATTERN_NOISE ->
                base_value + TruncDiv(ACCEL_SCALE_2G * 5 * u, 100)
          [] pattern = PATTERN_GRAVITY_ONLY -> base_value
          [] pattern = PATTERN_ROTATION ->
                (* sin(angle) = u, cos(angle) = 1 - u^2, cos(2 angle) = 1 - 2u^2 *)
                CASE axis = 0 -> ACCEL_SCALE_2G * u
                  [] axis = 1 -> TruncDiv(ACCEL_SCALE_2G * (1 - 2 * u * u), 10)
                  [] axis = 2 -> ACCEL_SCALE_2G * (1 - u * u)
                  [] OTHER -> base_value
          [] pattern = PATTERN_VIBRATION ->
                base_value + TruncDiv(ACCEL_SCALE_2G * 2 * u, 100)
          [] OTHER -> base_value

generate_gyro_data(pattern, axis, sample_num, u) ==
    CASE pattern = PATTERN_STATIC -> 0
      [] pattern = PATTERN_GRAVITY_ONLY -> 0
      [] pattern = PATTERN_SINE_WAVE -> GYRO_SCALE_250DPS * 10 * u
      [] pattern = PATTERN_NOISE -> GYRO_SCALE_250DPS * u
      [] pattern = PATTERN_ROTATION ->
            CASE axis = 0 -> GYRO_SCALE_250DPS * 5
              [] axis = 1 -> GYRO_SCALE_250DPS * (-2)
              [] axis = 2 -> GYRO_SCALE_250DPS * 10 * u
              [] OTHER -> 0
      [] pattern = PATTERN_VIBRATION -> GYRO_SCALE_250DPS * 2 * u
      [] OTHER -> 0

(* temperatures in hundredths of a degree: MPU6050_DEFAULT_TEMP 21.0,      *)
(* TEMP_OFFSET 36.53, TEMP_SENSITIVITY 340                                 *)
generate_temp_data(pattern, sample_num, u) ==
    LET base_temp ==
            CASE pattern = PATTERN_SINE_WAVE -> 2100 + 200 * u
              [] pattern = PATTERN_NOISE -> 2100 + 50 * u
              [] pattern = PATTERN_ROTATION -> 2100 + 100
              [] pattern = PATTERN_VIBRATION -> 2100 + 100
              [] OTHER -> 2100
    IN  TruncDiv((base_temp + 3653) * 340, 100)

----------------------------------------------------------------------------
(* Device State Machine: one mpu6050_state_t                               *)

ZeroData ==
    [accel_x |-> 0, accel_y |-> 0, accel_z |-> 0,
     gyro_x |-> 0, gyro_y |-> 0, gyro_z |-> 0, temperature |-> 0]

(* An array that starts zeroed and is only ever written at its lowest      *)
(* unwritten index or below (the FIFO buffer at head, the slot table at    *)
(* device_count) is kept as the sequence of its written prefix; element i  *)
(* of the C array is element i + 1 of the sequence, and an index beyond    *)
(* the prefix still holds its initial value.                               *)
ArrGet(arr, i, zero) == IF i < Len(arr) THEN arr[i + 1] ELSE zero

ArrSet(arr, i, v, zero) ==
    IF i < Len(arr) THEN [arr EXCEPT ![i + 1] = v]
    ELSE arr \o [k \in 1..(i - Len(arr)) |-> zero] \o << v >>

(* The 256-byte register map is kept as the function from the registers   *)
(* that hold a non-zero byte to that byte; a register outside its domain   *)
(* holds 0, as after the memset.                                           *)
ZeroRegisters == [r \in {} |-> 0]

RegGet(registers, reg) == IF reg \in DOMAIN registers THEN registers[reg] ELSE 0

RegSet(registers, reg, value) ==
    [r \in (IF value = 0 THEN DOMAIN registers \ {reg}
                         ELSE DOMAIN registers \cup {reg}) |->
        IF r = reg THEN value ELSE registers[r]]

(* the register defaults of mpu6050_simulator_create and of DEVICE_RESET *)
DefaultRegisters ==
    RegSet(RegSet(ZeroRegisters, MPU6050_WHO_AM_I, MPU6050_WHO_AM_I_VALUE),
           MPU6050_PWR_MGMT_1, 64)

ZeroFifo ==
    [buffer |-> << >>,
     head |-> 0, tail |-> 0, count |-> 0,
     enabled |-> FALSE, overflow |-> FALSE]

(* an entry of g_simulator.mpu6050_devices after memset(&g_simulator, 0) *)
ZeroState ==
    [registers |-> ZeroRegisters,
     current_data |-> ZeroData,
     fifo |-> ZeroFifo,
     power_state |-> POWER_OFF,
     pattern |-> PATTERN_STATIC,
     error_mode |-> ERROR_NONE,
     error_probability |-> 0,
     initialized |-> FALSE,
     self_test_mode |-> FALSE,
     sample_count |-> 0]

(* the state mpu6050_simulator_create leaves in an entry *)
CreatedState ==
    [registers |-> DefaultRegisters,
     current_data |-> [ZeroData EXCEPT
                          !.accel_z = ACCEL_SCALE_2G,
                          !.temperature = TruncDiv((2100 + 3653) * 340, 100)],
     fifo |-> ZeroFifo,
     power_state |-> POWER_SLEEP,
     pattern |-> PATTERN_GRAVITY_ONLY,
     error_mode |-> ERROR_NONE,
     error_probability |-> 0,
     initialized |-> TRUE,
     self_test_mode |-> FALSE,
     sample_count |-> 0]

(* error probabilities are percentages: 0 is 0.0, 100 is 1.0.  draw is the *)
(* outcome of rand() / RAND_MAX < probability when 0 < probability < 1     *)
should_inject_error(probability, draw) ==
    IF probability <= 0 THEN FALSE
    ELSE IF probability >= 100 THEN TRUE
    ELSE draw

is_register_readable(reg) == TRUE

(* is_register_writable without its WHO_AM_I case *)
is_register_writable_NoWhoAmI(reg) ==
    reg \notin {MPU6050_ACCEL_XOUT_H, MPU6050_ACCEL_XOUT_L,
                MPU6050_ACCEL_YOUT_H, MPU6050_ACCEL_YOUT_L,
                MPU6050_ACCEL_ZOUT_H, MPU6050_ACCEL_ZOUT_L,
                MPU6050_TEMP_OUT_H, MPU6050_TEMP_OUT_L,
                MPU6050_GYRO_XOUT_H, MPU6050_GYRO_XOUT_L,
                MPU6050_GYRO_YOUT_H, MPU6050_GYRO_YOUT_L,
                MPU6050_GYRO_ZOUT_H, MPU6050_GYRO_ZOUT_L,
                MPU6050_FIFO_COUNTH, MPU6050_FIFO_COUNTL}

(* is_register_writable without its last sensor-output case *)
is_register_writable_NoGyroZL(reg) ==
    reg \notin {MPU6050_WHO_AM_I,
                MPU6050_ACCEL_XOUT_H, MPU6050_ACCEL_XOUT_L,
                MPU6050_ACCEL_YOUT_H, MPU6050_ACCEL_YOUT_L,
                MPU6050_ACCEL_ZOUT_H, MPU6050_ACCEL_ZOUT_L,
                MPU6050_TEMP_OUT_H, MPU6050_TEMP_OUT_L,
                MPU6050_GYRO_XOUT_H, MPU6050_GYRO_XOUT_L,
                MPU6050_GYRO_YOUT_H, MPU6050_GYRO_YOUT_L,
                MPU6050_GYRO_ZOUT_H,
                MPU6050_FIFO_COUNTH, MPU6050_FIFO_COUNTL}

is_register_writable(reg) ==
    reg \notin {MPU6050_WHO_AM_I,
                MPU6050_ACCEL_XOUT_H, MPU6050_ACCEL_XOUT_L,
                MPU6050_ACCEL_YOUT_H, MPU6050_ACCEL_YOUT_L,
                MPU6050_ACCEL_ZOUT_H, MPU6050_ACCEL_ZOUT_L,
                MPU6050_TEMP_OUT_H, MPU6050_TEMP_OUT_L,
                MPU6050_GYRO_XOUT_H, MPU6050_GYRO_XOUT_L,
                MPU6050_GYRO_YOUT_H, MPU6050_GYRO_YOUT_L,
                MPU6050_GYRO_ZOUT_H, MPU6050_GYRO_ZOUT_L,
                MPU6050_FIFO_COUNTH, MPU6050_FIFO_COUNTL}

(* the push without the wrap of head at FIFO_BUFFER_SIZE *)
FifoPush_NoWrap(fifo, byte) ==
    IF fifo.count < FIFO_BUFFER_SIZE
    THEN [fifo EXCEPT !.buffer = ArrSet(@, fifo.head, byte, 0),
                      !.head = fifo.head + 1,
                      !.count = fifo.count + 1]
    ELSE [fifo EXCEPT !.overflow = TRUE]

(* the push that stores the byte over the oldest one when the FIFO is full *)
FifoPush_Overwrite(fifo, byte) ==
    IF fifo.count <= FIFO_BUFFER_SIZE
    THEN [fifo EXCEPT !.buffer = ArrSet(@, fifo.head, byte, 0),
                      !.head = (fifo.head + 1) % FIFO_BUFFER_SIZE,
                      !.count = IF fifo.count < FIFO_BUFFER_SIZE THEN fifo.count + 1
                                ELSE fifo.count]
    ELSE [fifo EXCEPT !.overflow = TRUE]

(* one push of the ring buffer: store at head unless count has reached the *)
(* capacity, in which case only the overflow flag is set                   *)
FifoPush(fifo, byte) ==
    IF fifo.count < FIFO_BUFFER_SIZE
    THEN [fifo EXCEPT !.buffer = ArrSet(@, fifo.head, byte, 0),
                      !.head = (fifo.head + 1) % FIFO_BUFFER_SIZE,
                      !.count = fifo.count + 1]
    ELSE [fifo EXCEPT !.overflow = TRUE]

(* the pop without the wrap of tail at FIFO_BUFFER_SIZE *)
FifoPop_NoWrap(fifo) ==
    [fifo EXCEPT !.tail = fifo.tail + 1,
                 !.count = (fifo.count + UINT16_MOD - 1) % UINT16_MOD]

(* one pop of the ring buffer; count is a uint16_t *)
FifoPop(fifo) ==
    [fifo EXCEPT !.tail = (fifo.tail + 1) % FIFO_BUFFER_SIZE,
                 !.count = (fifo.count + UINT16_MOD - 1) % UINT16_MOD]

(* the 14 bytes update_fifo_buffer builds from current_data *)
FrameBytes(d) ==
    << HighByte(d.accel_x), LowByte(d.accel_x),
       HighByte(d.accel_y), LowByte(d.accel_y),
       HighByte(d.accel_z), LowByte(d.accel_z),
       HighByte(d.temperature), LowByte(d.temperature),
       HighByte(d.gyro_x), LowByte(d.gyro_x),
       HighByte(d.gyro_y), LowByte(d.gyro_y),
       HighByte(d.gyro_z), LowByte(d.gyro_z) >>

RECURSIVE PushFrame(_, _, _)
(* the for loop of update_fifo_buffer from index i: stop at the first byte *)
(* that does not fit                                                       *)
PushFrame(fifo, bytes, i) ==
    IF i > Len(bytes) THEN fifo
    ELSE IF fifo.count < FIFO_BUFFER_SIZE
         THEN PushFrame(FifoPush(fifo, bytes[i]), bytes, i + 1)
         ELSE [fifo EXCEPT !.overflow = TRUE]

update_fifo_buffer(state) ==
    [state EXCEPT !.fifo = PushFrame(state.fifo, FrameBytes(state.current_data), 1)]

(* update_sensor_data with sample_count advanced twice *)
update_sensor_data_TwoSamples(state, u) ==
    IF state.power_state = POWER_OFF \/ state.power_state = POWER_SLEEP
    THEN state
    ELSE LET n == state.sample_count + 2   \* uint32_t; never near its wrap here
             s1 == [state EXCEPT
                      !.sample_count = n,
                      !.current_data =
                          [accel_x |-> generate_accel_data(state.pattern, 0, n, u),
                           accel_y |-> generate_accel_data(state.pattern, 1, n, u),
                           accel_z |-> generate_accel_data(state.pattern, 2, n, u),
                           gyro_x |-> generate_gyro_data(state.pattern, 0, n, u),
                           gyro_y |-> generate_gyro_data(state.pattern, 1, n, u),
                           gyro_z |-> generate_gyro_data(state.pattern, 2, n, u),
                           temperature |-> generate_temp_data(state.pattern, n, u)]]
         IN  IF s1.fifo.enabled THEN update_fifo_buffer(s1) ELSE s1

(* update_sensor_data without the test of the power state *)
update_sensor_data_NoPowerTest(state, u) ==
    IF FALSE
    THEN state
    ELSE LET n == state.sample_count + 1   \* uint32_t; never near its wrap here
             s1 == [state EXCEPT
                      !.sample_count = n,
                      !.current_data =
                          [accel_x |-> generate_accel_data(state.pattern, 0, n, u),
                           accel_y |-> generate_accel_data(state.pattern, 1, n, u),
                           accel_z |-> generate_accel_data(state.pattern, 2, n, u),
                           gyro_x |-> generate_gyro_data(state.pattern, 0, n, u),
                           gyro_y |-> generate_gyro_data(state.pattern, 1, n, u),
                           gyro_z |-> generate_gyro_data(state.pattern, 2, n, u),
                           temperature |-> generate_temp_data(state.pattern, n, u)]]
         IN  IF s1.fifo.enabled THEN update_fifo_buffer(s1) ELSE s1

update_sensor_data(state, u) ==
    IF state.power_state = POWER_OFF \/ state.power_state = POWER_SLEEP
    THEN state
    ELSE LET n == state.sample_count + 1   \* uint32_t; never near its wrap here
             s1 == [state EXCEPT
                      !.sample_count = n,
                      !.current_data =
                          [accel_x |-> generate_accel_data(state.pattern, 0, n, u),
                           accel_y |-> generate_accel_data(state.pattern, 1, n, u),
                           accel_z |-> generate_accel_data(state.pattern, 2, n, u),
                           gyro_x |-> generate_gyro_data(state.pattern, 0, n, u),
                           gyro_y |-> generate_gyro_data(state.pattern, 1, n, u),
                           gyro_z |-> generate_gyro_data(state.pattern, 2, n, u),
                           temperature |-> generate_temp_data(state.pattern, n, u)]]
         IN  IF s1.fifo.enabled THEN update_fifo_buffer(s1) ELSE s1

----------------------------------------------------------------------------
(* Register access.  devs is the table mpu6050_devices, i the index of the *)
(* entry the device pointer refers to.  rnd holds the values rand() yields *)
(* during the call: inject (primary draw below the probability), roll (the *)
(* secondary rand() % 10 < 3), byte (rand() % 256) and u (generator).      *)
(* The result is the new table, the return code and the byte stored in     *)
(* *data (NoData when the call does not store one).                        *)

NoData == -1

Result(devs, ret, data) == [devs |-> devs, ret |-> ret, data |-> data]

ResetFifoFields(fifo) ==
    [fifo EXCEPT !.head = 0, !.tail = 0, !.count = 0, !.overflow = FALSE]

mpu6050_fifo_reset(devs, address) ==
    LET index == address % MAX_I2C_DEVICES
    IN  IF ~devs[index].initialized
        THEN Result(devs, -ENODEV, NoData)
        ELSE Result([devs EXCEPT ![index].fifo = ResetFifoFields(@)], 0, NoData)

(* handle_power_management with the reset block placed before the         *)
(* power-state update, so that the written value's bits win                *)
handle_power_management_ResetFirst(devs, i, reg, value) ==
    LET s1 == IF HasBit(value, 128)
              THEN [devs[i] EXCEPT
                      !.registers = DefaultRegisters]
              ELSE [devs[i] EXCEPT !.registers = RegSet(@, reg, value)]
        s2 == [s1 EXCEPT
                 !.power_state = IF HasBit(value, 64) THEN POWER_SLEEP
                                 ELSE IF HasBit(value, 32) THEN POWER_CYCLE
                                 ELSE POWER_ON]
    IN  IF HasBit(value, 128)
        THEN mpu6050_fifo_reset([devs EXCEPT ![i] = s2], 0).devs
        ELSE [devs EXCEPT ![i] = s2]

handle_power_management(devs, i, reg, value) ==
    LET s1 == [devs[i] EXCEPT
                 !.registers = RegSet(@, reg, value),
                 !.power_state = IF HasBit(value, 64) THEN POWER_SLEEP
                                 ELSE IF HasBit(value, 32) THEN POWER_CYCLE
                                 ELSE POWER_ON]
    IN  IF HasBit(value, 128)
        THEN LET s2 == [s1 EXCEPT
                          !.registers = DefaultRegisters,
                          !.power_state = POWER_SLEEP]
             IN  (* mpu6050_fifo_reset(0): the code passes address 0 *)
                 mpu6050_fifo_reset([devs EXCEPT ![i] = s2], 0).devs
        ELSE [devs EXCEPT ![i] = s1]

(* handle_fifo_configuration storing USER_CTRL with its FIFO_RESET bit     *)
(* cleared once the reset is done                                          *)
handle_fifo_configuration_SelfClearing(state, reg, value) ==
    LET s1 == [state EXCEPT !.registers = RegSet(@, reg, value)]
    IN  IF reg = MPU6050_USER_CTRL
        THEN LET s2 == [s1 EXCEPT !.fifo.enabled = HasBit(value, 64)]
             IN  IF HasBit(value, 4)
                 THEN [s2 EXCEPT !.fifo = ResetFifoFields(@),
                                 !.registers = RegSet(@, reg, ClearBit(value, 4))]
                 ELSE s2
        ELSE s1

handle_fifo_configuration(state, reg, value) ==
    LET s1 == [state EXCEPT !.registers = RegSet(@, reg, value)]
    IN  IF reg = MPU6050_USER_CTRL
        THEN LET s2 == [s1 EXCEPT !.fifo.enabled = HasBit(value, 64)]
             IN  IF HasBit(value, 4)
                 THEN [s2 EXCEPT !.fifo = ResetFifoFields(@)]
                 ELSE s2
        ELSE s1

(* the switch of mpu6050_read_register once no fault is returned *)
ReadDispatch(devs, i, reg, rnd) ==
    LET state == devs[i]
        d == state.current_data
    IN  CASE reg = MPU6050_ACCEL_XOUT_H ->
               LET s1 == update_sensor_data(state, rnd.u)
               IN  Result([devs EXCEPT ![i] = s1], 0, HighByte(s1.current_data.accel_x))
          [] reg = MPU6050_ACCEL_XOUT_L -> Result(devs, 0, LowByte(d.accel_x))
          [] reg = MPU6050_ACCEL_YOUT_H -> Result(devs, 0, HighByte(d.accel_y))
          [] reg = MPU6050_ACCEL_YOUT_L -> Result(devs, 0, LowByte(d.accel_y))
          [] reg = MPU6050_ACCEL_ZOUT_H -> Result(devs, 0, HighByte(d.accel_z))
          [] reg = MPU6050_ACCEL_ZOUT_L -> Result(devs, 0, LowByte(d.accel_z))
          [] reg = MPU6050_GYRO_XOUT_H -> Result(devs, 0, HighByte(d.gyro_x))
          [] reg = MPU6050_GYRO_XOUT_L -> Result(devs, 0, LowByte(d.gyro_x))
          [] reg = MPU6050_GYRO_YOUT_H -> Result(devs, 0, HighByte(d.gyro_y))
          [] reg = MPU6050_GYRO_YOUT_L -> Result(devs, 0, LowByte(d.gyro_y))
          [] reg = MPU6050_GYRO_ZOUT_H -> Result(devs, 0, HighByte(d.gyro_z))
          [] reg = MPU6050_GYRO_ZOUT_L -> Result(devs, 0, LowByte(d.gyro_z))
          [] reg = MPU6050_TEMP_OUT_H -> Result(devs, 0, HighByte(d.temperature))
          [] reg = MPU6050_TEMP_OUT_L -> Result(devs, 0, LowByte(d.temperature))
          [] reg = MPU6050_FIFO_COUNTH -> Result(devs, 0, (state.fifo.count \div 256) % 256)
          [] reg = MPU6050_FIFO_COUNTL -> Result(devs, 0, state.fifo.count % 256)
          [] reg = MPU6050_FIFO_R_W ->
               IF state.fifo.count > 0
               THEN Result([devs EXCEPT ![i].fifo = FifoPop(@)], 0,
                           ArrGet(state.fifo.buffer, state.fifo.tail, 0))
               ELSE Result(devs, 0, 0)
          [] OTHER -> Result(devs, 0, RegGet(state.registers, reg))

(* the switch of ReadFault with a default case that fails with -EIO *)
ReadFault_DefaultFails(state, rnd) ==
    IF should_inject_error(state.error_probability, rnd.inject)
    THEN CASE state.error_mode = ERROR_DEVICE_NOT_FOUND -> -ENODEV
           [] state.error_mode = ERROR_TIMEOUT -> -ETIMEDOUT
           [] state.error_mode = ERROR_BUS_ERROR -> -EIO
           [] state.error_mode = ERROR_CORRUPT_DATA -> 0
           [] state.error_mode = ERROR_INTERMITTENT -> IF rnd.roll THEN -EIO ELSE 1
           [] OTHER -> -EIO
    ELSE 1

(* the error-injection switch of mpu6050_read_register: the return code of *)
(* an injected failure, 0 for corrupt data, 1 when the read proceeds       *)
ReadFault(state, rnd) ==
    IF should_inject_error(state.error_probability, rnd.inject)
    THEN CASE state.error_mode = ERROR_DEVICE_NOT_FOUND -> -ENODEV
           [] state.error_mode = ERROR_TIMEOUT -> -ETIMEDOUT
           [] state.error_mode = ERROR_BUS_ERROR -> -EIO
           [] state.error_mode = ERROR_CORRUPT_DATA -> 0
           [] state.error_mode = ERROR_INTERMITTENT -> IF rnd.roll THEN -EIO ELSE 1
           [] OTHER -> 1
    ELSE 1

(* mpu6050_read_register substituting the corrupt byte after the register  *)
(* has been read                                                           *)
mpu6050_read_register_CorruptAfterRead(devs, i, reg, rnd) ==
    LET state == devs[i]
        fault == ReadFault(state, rnd)
    IN  IF ~state.initialized THEN Result(devs, -ENODEV, NoData)
        ELSE IF fault < 0 THEN Result(devs, fault, NoData)
        ELSE IF ~is_register_readable(reg) THEN Result(devs, -EACCES, NoData)
        ELSE IF fault = 0 THEN Result(ReadDispatch(devs, i, reg, rnd).devs, 0, rnd.byte)
        ELSE ReadDispatch(devs, i, reg, rnd)

mpu6050_read_register(devs, i, reg, rnd) ==
    LET state == devs[i]
        fault == ReadFault(state, rnd)
    IN  IF ~state.initialized THEN Result(devs, -ENODEV, NoData)
        ELSE IF fault < 0 THEN Result(devs, fault, NoData)
        ELSE IF fault = 0 THEN Result(devs, 0, rnd.byte)
        ELSE IF ~is_register_readable(reg) THEN Result(devs, -EACCES, NoData)
        ELSE ReadDispatch(devs, i, reg, rnd)

(* the error-injection switch of mpu6050_write_register *)
WriteFault(state, rnd) ==
    IF should_inject_error(state.error_probability, rnd.inject)
    THEN CASE state.error_mode = ERROR_DEVICE_NOT_FOUND -> -ENODEV
           [] state.error_mode = ERROR_TIMEOUT -> -ETIMEDOUT
           [] state.error_mode = ERROR_BUS_ERROR -> -EIO
           [] OTHER -> 1
    ELSE 1

(* the switch of mpu6050_write_register once the register is writable *)
WriteDispatch(devs, i, reg, data) ==
    CASE reg = MPU6050_PWR_MGMT_1 -> handle_power_management(devs, i, reg, data)
      [] reg \in {MPU6050_USER_CTRL, MPU6050_FIFO_EN} ->
            [devs EXCEPT ![i] = handle_fifo_configuration(@, reg, data)]
      [] reg = MPU6050_FIFO_R_W -> [devs EXCEPT ![i].fifo = FifoPush(@, data)]
      [] OTHER -> [devs EXCEPT ![i].registers = RegSet(@, reg, data)]

mpu6050_write_register(devs, i, reg, data, rnd) ==
    LET state == devs[i]
        fault == WriteFault(state, rnd)
    IN  IF ~state.initialized THEN Result(devs, -ENODEV, NoData)
        ELSE IF fault < 0 THEN Result(devs, fault, NoData)
        ELSE IF ~is_register_writable(reg) THEN Result(devs, -EACCES, NoData)
        ELSE Result(WriteDispatch(devs, i, reg, data), 0, NoData)

RECURSIVE BurstRead(_, _, _, _, _, _, _)
(* the loop of mpu6050_read_burst from byte k: rnds[k + 1] are the rand()  *)
(* values of byte k; out collects the bytes stored so far; reg + k is      *)
(* truncated to uint8_t at the call                                        *)
BurstRead(devs, i, reg, len, rnds, k, out) ==
    IF k >= len THEN [devs |-> devs, ret |-> 0, data |-> out]
    ELSE LET r == mpu6050_read_register(devs, i, (reg + k) % UINT8_MOD, rnds[k + 1])
         IN  IF r.ret < 0
             THEN [devs |-> r.devs, ret |-> r.ret, data |-> out]
             ELSE BurstRead(r.devs, i, reg, len, rnds, k + 1, Append(out, r.data))

mpu6050_read_burst(devs, i, reg, len, rnds) ==
    BurstRead(devs, i, reg, len, rnds, 0, << >>)

RECURSIVE BurstWrite(_, _, _, _, _, _)
(* the loop of i2c_simulator_write_burst over device->write_register *)
BurstWrite(devs, i, reg, bytes, rnds, k) ==
    IF k >= Len(bytes) THEN [devs |-> devs, ret |-> 0, data |-> << >>]
    ELSE LET r == mpu6050_write_register(devs, i, (reg + k) % UINT8_MOD,
                                         bytes[k + 1], rnds[k + 1])
         IN  IF r.ret < 0
             THEN [devs |-> r.devs, ret |-> r.ret, data |-> << >>]
             ELSE BurstWrite(r.devs, i, reg, bytes, rnds, k + 1)

----------------------------------------------------------------------------
(* Global simulator state                                                  *)

VARIABLES
    g_simulator_initialized,  \* static flag of i2c_simulator.c
    running,                  \* g_simulator.running
    background_thread,        \* "none", "running", "exited" or "joined"
    buses,                    \* g_simulator.buses
    mpu6050_devices,          \* g_simulator.mpu6050_devices (modelled entries)
    last,                     \* the last call of a caller and what it returned
    ticks,                    \* Sampler loop iterations since the last call
    budget,                   \* calls the callers may still make
    pc,                       \* where each concurrent caller is in its call
    mutex,                    \* the owner of each pthread mutex, 0 when free
    trace                     \* history: the calls returned so far, when kept

vars == << g_simulator_initialized, running, background_thread, buses,
           mpu6050_devices, last, ticks, budget, pc, mutex, trace >>

(* the history of calls is kept only where a property speaks about more    *)
(* than the last call                                                      *)
NoTrace == [on |-> FALSE, calls |-> << >>]

EmptyTrace == [on |-> TRUE, calls |-> << >>]

(* the concurrent callers; a call made in one step is made while they are  *)
(* all outside a call                                                      *)
Callers == {1, 2}

Idle == [at |-> "idle", data |-> 0]

(* the owners of buses[0].mutex, mpu6050_devices[0x68].mutex and its        *)
(* fifo.mutex, then of buses[1].mutex, mpu6050_devices[0].mutex and its    *)
(* fifo.mutex; 0 is an unlocked mutex                                      *)
AllFree == [bus |-> 0, device |-> 0, fifo |-> 0,
            bus1 |-> 0, device0 |-> 0, fifo0 |-> 0]

AllIdle == \A t \in Callers : pc[t].at = "idle"

(* the addresses the callers use: 0x00, 0x68 and 0xE8 (= 0x68 + 128) *)
Addresses == {0, 104, 232}

(* the entries of mpu6050_devices those addresses select *)
DevIdx == {a % MAX_I2C_DEVICES : a \in Addresses}

ZeroSlot == [address |-> 0, present |-> FALSE, device_data |-> NULL, bound |-> FALSE]

ZeroBus == [devices |-> << >>, device_count |-> 0]

(* buses[bus].devices[slot] *)
SlotOf(bus, slot) == ArrGet(buses[bus].devices, slot, ZeroSlot)

NoCall == [op |-> "none", bus |-> -1, address |-> -1, reg |-> -1,
           arg |-> << >>, ret |-> 0, data |-> << >>]

Call(op, bus, address, reg, arg, ret, data) ==
    [op |-> op, bus |-> bus, address |-> address, reg |-> reg,
     arg |-> arg, ret |-> ret, data |-> data]

(* a caller returns from a call: record it and use up one call *)
Done(call) ==
    /\ budget > 0
    /\ AllIdle
    /\ budget' = budget - 1
    /\ ticks' = 0
    /\ last' = call
    /\ trace' = IF trace.on THEN [trace EXCEPT !.calls = Append(@, call)]
                 ELSE trace
    /\ UNCHANGED << pc, mutex >>

(* the same for the calls that leave the lifecycle state alone *)
Returns(call) ==
    /\ Done(call)
    /\ UNCHANGED << g_simulator_initialized, running, background_thread >>

(* the index of the first present slot of the bus with that address *)
find_device(bs, bus, address) ==
    IF bus < 0 \/ bus >= I2C_BUS_COUNT THEN NULL
    ELSE LET hits == {i \in 0..(bs[bus].device_count - 1) :
                        /\ ArrGet(bs[bus].devices, i, ZeroSlot).address = address
                        /\ ArrGet(bs[bus].devices, i, ZeroSlot).present}
         IN  IF hits = {} THEN NULL
             ELSE CHOOSE i \in hits : \A j \in hits : i <= j

(* mpu6050_simulator_create without its memset of the FIFO *)
mpu6050_simulator_create_KeepFifo(devs, address) ==
    [devs EXCEPT ![address % MAX_I2C_DEVICES] =
        [CreatedState EXCEPT !.fifo = devs[address % MAX_I2C_DEVICES].fifo]]

(* a create that keeps the error mode of the state it replaces *)
mpu6050_simulator_create_KeepErrorMode(devs, address) ==
    [devs EXCEPT ![address % MAX_I2C_DEVICES] =
        [CreatedState EXCEPT
            !.error_mode = devs[address % MAX_I2C_DEVICES].error_mode,
            !.error_probability = devs[address % MAX_I2C_DEVICES].error_probability]]

mpu6050_simulator_create(devs, address) ==
    [devs EXCEPT ![address % MAX_I2C_DEVICES] = CreatedState]

mpu6050_simulator_destroy(devs, address) ==
    [devs EXCEPT ![address % MAX_I2C_DEVICES].initialized = FALSE]

----------------------------------------------------------------------------
(* Lifecycle                                                               *)

(* i2c_simulator_init without its test of g_simulator_initialized *)
i2c_simulator_init_NoGuard(created) ==
    /\ buses' = [b \in 0..(I2C_BUS_COUNT - 1) |-> ZeroBus]
    /\ mpu6050_devices' = [i \in DevIdx |-> ZeroState]
    /\ running' = TRUE
    /\ background_thread' = IF created THEN "running" ELSE "none"
    /\ g_simulator_initialized' = created
    /\ Done(Call("init", -1, -1, -1, << >>, IF created THEN 0 ELSE -1, << >>))

(* created is whether pthread_create succeeds; the memset leaves a zeroed   *)
(* thread handle when it does not                                          *)
i2c_simulator_init(created) ==
    IF g_simulator_initialized
    THEN /\ UNCHANGED << g_simulator_initialized, running, background_thread,
                         buses, mpu6050_devices >>
         /\ Done(Call("init", -1, -1, -1, << >>, 0, << >>))
    ELSE /\ buses' = [b \in 0..(I2C_BUS_COUNT - 1) |-> ZeroBus]
         /\ mpu6050_devices' = [i \in DevIdx |-> ZeroState]
         /\ running' = TRUE
         /\ background_thread' = IF created THEN "running" ELSE "none"
         /\ g_simulator_initialized' = created
         /\ Done(Call("init", -1, -1, -1, << >>, IF created THEN 0 ELSE -1, << >>))

(* cleanup clears running, joins the Sampler (which leaves its loop at its *)
(* next test of the flag) and clears the initialized flag                  *)
i2c_simulator_cleanup ==
    /\ IF ~g_simulator_initialized
       THEN UNCHANGED << g_simulator_initialized, running, background_thread >>
       ELSE /\ running' = FALSE
            /\ background_thread' = "joined"
            /\ g_simulator_initialized' = FALSE
    /\ UNCHANGED << buses, mpu6050_devices >>
    /\ Done(Call("cleanup", -1, -1, -1, << >>, 0, << >>))

(* one iteration of the while loop of background_simulation_thread: the    *)
(* body visits every initialized device and does nothing with it, then     *)
(* sleeps 10 ms                                                            *)
background_simulation_thread ==
    /\ background_thread = "running"
    /\ running
    /\ ticks' = ticks + 1
    /\ UNCHANGED << g_simulator_initialized, running, background_thread, buses,
                    mpu6050_devices, last, budget, pc, mutex, trace >>

----------------------------------------------------------------------------
(* Bus registry                                                            *)

(* i2c_simulator_add_device without the device_count-- of its unsupported *)
(* type branch                                                            *)
i2c_simulator_add_device_NoRollback(bus, address, device_type) ==
    LET slot == buses[bus].device_count
    IN
    IF ~g_simulator_initialized \/ bus < 0 \/ bus >= I2C_BUS_COUNT
    THEN /\ UNCHANGED << buses, mpu6050_devices >>
         /\ Returns(Call("add_device", bus, address, -1, << device_type >>, -EINVAL, << >>))
    ELSE IF find_device(buses, bus, address) # NULL
    THEN /\ UNCHANGED << buses, mpu6050_devices >>
         /\ Returns(Call("add_device", bus, address, -1, << device_type >>, -EEXIST, << >>))
    ELSE IF buses[bus].device_count >= MAX_I2C_DEVICES
    THEN /\ UNCHANGED << buses, mpu6050_devices >>
         /\ Returns(Call("add_device", bus, address, -1, << device_type >>, -ENOMEM, << >>))
    ELSE IF device_type = "mpu6050"
    THEN /\ buses' = [buses EXCEPT
                        ![bus].device_count = slot + 1,
                        ![bus].devices = ArrSet(@, slot,
                            [address |-> address, present |-> TRUE,
                             device_data |-> address % MAX_I2C_DEVICES,
                             bound |-> TRUE], ZeroSlot)]
         /\ mpu6050_devices' = mpu6050_simulator_create(mpu6050_devices, address)
         /\ Returns(Call("add_device", bus, address, -1, << device_type >>, 0, << >>))
    ELSE /\ buses' = [buses EXCEPT
                        ![bus].device_count = slot + 1,
                        ![bus].devices = ArrSet(@, slot,
                            [SlotOf(bus, slot) EXCEPT !.address = address,
                                                      !.present = TRUE], ZeroSlot)]
         /\ UNCHANGED mpu6050_devices
         /\ Returns(Call("add_device", bus, address, -1, << device_type >>, -ENOTSUP, << >>))

i2c_simulator_add_device(bus, address, device_type) ==
    LET slot == buses[bus].device_count
    IN
    IF ~g_simulator_initialized \/ bus < 0 \/ bus >= I2C_BUS_COUNT
    THEN /\ UNCHANGED << buses, mpu6050_devices >>
         /\ Returns(Call("add_device", bus, address, -1, << device_type >>, -EINVAL, << >>))
    ELSE IF find_device(buses, bus, address) # NULL
    THEN /\ UNCHANGED << buses, mpu6050_devices >>
         /\ Returns(Call("add_device", bus, address, -1, << device_type >>, -EEXIST, << >>))
    ELSE IF buses[bus].device_count >= MAX_I2C_DEVICES
    THEN /\ UNCHANGED << buses, mpu6050_devices >>
         /\ Returns(Call("add_device", bus, address, -1, << device_type >>, -ENOMEM, << >>))
    ELSE IF device_type = "mpu6050"
    THEN /\ buses' = [buses EXCEPT
                        ![bus].device_count = slot + 1,
                        ![bus].devices = ArrSet(@, slot,
                            [address |-> address, present |-> TRUE,
                             device_data |-> address % MAX_I2C_DEVICES,
                             bound |-> TRUE], ZeroSlot)]
         /\ mpu6050_devices' = mpu6050_simulator_create(mpu6050_devices, address)
         /\ Returns(Call("add_device", bus, address, -1, << device_type >>, 0, << >>))
    ELSE (* the slot is written before the type is known; device_count is  *)
         (* incremented and decremented again                               *)
         /\ buses' = [buses EXCEPT
                        ![bus].devices = ArrSet(@, slot,
                            [SlotOf(bus, slot) EXCEPT !.address = address,
                                                      !.present = TRUE], ZeroSlot)]
         /\ UNCHANGED mpu6050_devices
         /\ Returns(Call("add_device", bus, address, -1, << device_type >>, -ENOTSUP, << >>))

(* i2c_simulator_remove_device without device->present = false *)
i2c_simulator_remove_device_KeepPresent(bus, address) ==
    LET slot == find_device(buses, bus, address)
    IN
    IF ~g_simulator_initialized \/ bus < 0 \/ bus >= I2C_BUS_COUNT
    THEN /\ UNCHANGED << buses, mpu6050_devices >>
         /\ Returns(Call("remove_device", bus, address, -1, << >>, -EINVAL, << >>))
    ELSE IF slot = NULL
    THEN /\ UNCHANGED << buses, mpu6050_devices >>
         /\ Returns(Call("remove_device", bus, address, -1, << >>, -ENODEV, << >>))
    ELSE /\ buses' = [buses EXCEPT
                        ![bus].devices = ArrSet(@, slot,
                            [SlotOf(bus, slot) EXCEPT !.device_data = NULL], ZeroSlot)]
         /\ mpu6050_devices' = mpu6050_simulator_destroy(mpu6050_devices, address)
         /\ Returns(Call("remove_device", bus, address, -1, << >>, 0, << >>))

i2c_simulator_remove_device(bus, address) ==
    LET slot == find_device(buses, bus, address)
    IN
    IF ~g_simulator_initialized \/ bus < 0 \/ bus >= I2C_BUS_COUNT
    THEN /\ UNCHANGED << buses, mpu6050_devices >>
         /\ Returns(Call("remove_device", bus, address, -1, << >>, -EINVAL, << >>))
    ELSE IF slot = NULL
    THEN /\ UNCHANGED << buses, mpu6050_devices >>
         /\ Returns(Call("remove_device", bus, address, -1, << >>, -ENODEV, << >>))
    ELSE /\ buses' = [buses EXCEPT
                        ![bus].devices = ArrSet(@, slot,
                            [SlotOf(bus, slot) EXCEPT !.present = FALSE,
                                                      !.device_data = NULL], ZeroSlot)]
         /\ mpu6050_devices' = mpu6050_simulator_destroy(mpu6050_devices, address)
         /\ Returns(Call("remove_device", bus, address, -1, << >>, 0, << >>))

----------------------------------------------------------------------------
(* Bus transactions.  Each holds the bus lock from find_device to the      *)
(* return of the device operation.                                         *)

AsSeq(data) == IF data = NoData THEN << >> ELSE << data >>

Usable(dev) == dev.bound /\ dev.device_data # NULL

i2c_simulator_read_byte(bus, address, reg, rnd) ==
    LET slot == find_device(buses, bus, address)
        r == IF Usable(SlotOf(bus, slot))
             THEN mpu6050_read_register(mpu6050_devices,
                                        SlotOf(bus, slot).device_data, reg, rnd)
             ELSE Result(mpu6050_devices, -EIO, NoData)
    IN
    /\ UNCHANGED buses
    /\ IF ~g_simulator_initialized
       THEN /\ UNCHANGED mpu6050_devices
            /\ Returns(Call("read_byte", bus, address, reg, << >>, -EINVAL, << >>))
       ELSE IF slot = NULL
       THEN /\ UNCHANGED mpu6050_devices
            /\ Returns(Call("read_byte", bus, address, reg, << >>, -ENODEV, << >>))
       ELSE /\ mpu6050_devices' = r.devs
            /\ Returns(Call("read_byte", bus, address, reg, << >>, r.ret, AsSeq(r.data)))

i2c_simulator_write_byte(bus, address, reg, data, rnd) ==
    LET slot == find_device(buses, bus, address)
        r == IF Usable(SlotOf(bus, slot))
             THEN mpu6050_write_register(mpu6050_devices,
                                         SlotOf(bus, slot).device_data, reg, data, rnd)
             ELSE Result(mpu6050_devices, -EIO, NoData)
    IN
    /\ UNCHANGED buses
    /\ IF ~g_simulator_initialized
       THEN /\ UNCHANGED mpu6050_devices
            /\ Returns(Call("write_byte", bus, address, reg, << data >>, -EINVAL, << >>))
       ELSE IF slot = NULL
       THEN /\ UNCHANGED mpu6050_devices
            /\ Returns(Call("write_byte", bus, address, reg, << data >>, -ENODEV, << >>))
       ELSE /\ mpu6050_devices' = r.devs
            /\ Returns(Call("write_byte", bus, address, reg, << data >>, r.ret, << >>))

(* read_burst is always bound for an mpu6050 slot, so the per-byte         *)
(* fallback of i2c_simulator_read_burst is never taken                     *)
i2c_simulator_read_burst(bus, address, reg, len, rnds) ==
    LET slot == find_device(buses, bus, address)
        r == IF Usable(SlotOf(bus, slot))
             THEN mpu6050_read_burst(mpu6050_devices,
                                     SlotOf(bus, slot).device_data, reg, len, rnds)
             ELSE [devs |-> mpu6050_devices, ret |-> -EIO, data |-> << >>]
    IN
    /\ UNCHANGED buses
    /\ IF ~g_simulator_initialized \/ len = 0
       THEN /\ UNCHANGED mpu6050_devices
            /\ Returns(Call("read_burst", bus, address, reg, << len >>, -EINVAL, << >>))
       ELSE IF slot = NULL
       THEN /\ UNCHANGED mpu6050_devices
            /\ Returns(Call("read_burst", bus, address, reg, << len >>, -ENODEV, << >>))
       ELSE /\ mpu6050_devices' = r.devs
            /\ Returns(Call("read_burst", bus, address, reg, << len >>, r.ret, r.data))

i2c_simulator_write_burst(bus, address, reg, bytes, rnds) ==
    LET slot == find_device(buses, bus, address)
        r == IF Usable(SlotOf(bus, slot))
             THEN BurstWrite(mpu6050_devices, SlotOf(bus, slot).device_data,
                             reg, bytes, rnds, 0)
             ELSE [devs |-> mpu6050_devices, ret |-> -EIO, data |-> << >>]
    IN
    /\ UNCHANGED buses
    /\ IF ~g_simulator_initialized \/ Len(bytes) = 0
       THEN /\ UNCHANGED mpu6050_devices
            /\ Returns(Call("write_burst", bus, address, reg, bytes, -EINVAL, << >>))
       ELSE IF slot = NULL
       THEN /\ UNCHANGED mpu6050_devices
            /\ Returns(Call("write_burst", bus, address, reg, bytes, -ENODEV, << >>))
       ELSE /\ mpu6050_devices' = r.devs
            /\ Returns(Call("write_burst", bus, address, reg, bytes, r.ret, << >>))

----------------------------------------------------------------------------
(* Device configuration.  These address mpu6050_devices[address % 128]     *)
(* directly, without the bus registry.                                     *)

StateOf(address) == mpu6050_devices[address % MAX_I2C_DEVICES]

(* a configuration call that changes one entry of the table *)
Configure(op, address, arg, ok, err, new) ==
    /\ UNCHANGED buses
    /\ IF ok
       THEN /\ mpu6050_devices' =
                  [mpu6050_devices EXCEPT ![address % MAX_I2C_DEVICES] = new]
            /\ Returns(Call(op, -1, address, -1, arg, 0, << >>))
       ELSE /\ UNCHANGED mpu6050_devices
            /\ Returns(Call(op, -1, address, -1, arg, err, << >>))

mpu6050_simulator_set_pattern(address, pattern) ==
    Configure("set_pattern", address, << pattern >>,
              StateOf(address).initialized /\ pattern < PATTERN_COUNT, -EINVAL,
              [StateOf(address) EXCEPT !.pattern = pattern])

(* mpu6050_simulator_set_error_mode without state->error_mode = error *)
mpu6050_simulator_set_error_mode_KeepMode(address, error, probability) ==
    Configure("set_error_mode", address, << error, probability >>,
              /\ StateOf(address).initialized
              /\ error < ERROR_COUNT
              /\ probability >= 0
              /\ probability <= 100,
              -EINVAL,
              [StateOf(address) EXCEPT !.error_probability = probability])

mpu6050_simulator_set_error_mode(address, error, probability) ==
    Configure("set_error_mode", address, << error, probability >>,
              /\ StateOf(address).initialized
              /\ error < ERROR_COUNT
              /\ probability >= 0
              /\ probability <= 100,
              -EINVAL,
              [StateOf(address) EXCEPT !.error_mode = error,
                                       !.error_probability = probability])

mpu6050_simulator_inject_error(address) ==
    Configure("inject_error", address, << >>,
              StateOf(address).initialized, -ENODEV,
              [StateOf(address) EXCEPT !.error_probability = 100,
                                       !.error_mode = ERROR_BUS_ERROR])

mpu6050_fifo_enable(address, enable) ==
    Configure("fifo_enable", address, << IF enable THEN 1 ELSE 0 >>,
              StateOf(address).initialized, -ENODEV,
              [StateOf(address) EXCEPT
                  !.fifo = IF enable
                           THEN [ResetFifoFields(@) EXCEPT !.enabled = TRUE]
                           ELSE [@ EXCEPT !.enabled = FALSE],
                  !.registers =
                      LET ctrl == RegGet(@, MPU6050_USER_CTRL)
                      IN  RegSet(@, MPU6050_USER_CTRL,
                                 IF enable THEN SetBit(ctrl, 64)
                                 ELSE ClearBit(ctrl, 64))])

Call_mpu6050_fifo_reset(address) ==
    LET r == mpu6050_fifo_reset(mpu6050_devices, address)
    IN  /\ UNCHANGED buses
        /\ mpu6050_devices' = r.devs
        /\ Returns(Call("fifo_reset", -1, address, -1, << >>, r.ret, << >>))

(* mpu6050_set_power_state without the test power_state >= POWER_COUNT *)
mpu6050_set_power_state_NoRangeTest(address, power_state) ==
    Configure("set_power_state", address, << power_state >>,
              StateOf(address).initialized, -EINVAL,
              [StateOf(address) EXCEPT
                  !.power_state = power_state,
                  !.registers =
                      LET pwr == RegGet(@, MPU6050_PWR_MGMT_1)
                      IN  RegSet(@, MPU6050_PWR_MGMT_1,
                            CASE power_state = POWER_OFF -> SetBit(pwr, 64)
                              [] power_state = POWER_SLEEP -> SetBit(pwr, 64)
                              [] power_state = POWER_ON -> ClearBit(pwr, 64)
                              [] power_state = POWER_CYCLE -> SetBit(pwr, 32)
                              [] OTHER -> pwr)])

(* power_state_t has no negative enumerator, so the build compares it      *)
(* unsigned: a negative argument is a value above POWER_COUNT              *)
mpu6050_set_power_state(address, power_state) ==
    Configure("set_power_state", address, << power_state >>,
              /\ StateOf(address).initialized
              /\ power_state >= 0 /\ power_state < POWER_COUNT, -EINVAL,
              [StateOf(address) EXCEPT
                  !.power_state = power_state,
                  !.registers =
                      LET pwr == RegGet(@, MPU6050_PWR_MGMT_1)
                      IN  RegSet(@, MPU6050_PWR_MGMT_1,
                            CASE power_state = POWER_OFF -> SetBit(pwr, 64)
                              [] power_state = POWER_SLEEP -> SetBit(pwr, 64)
                              [] power_state = POWER_ON -> ClearBit(pwr, 64)
                              [] power_state = POWER_CYCLE -> SetBit(pwr, 32)
                              [] OTHER -> pwr)])

(* read-only calls: the value read is recorded in last.data *)
Query(op, address, arg, ret, data) ==
    /\ UNCHANGED << buses, mpu6050_devices >>
    /\ Returns(Call(op, -1, address, -1, arg, ret, data))

mpu6050_get_power_state(address) ==
    Query("get_power_state", address, << >>,
          IF StateOf(address).initialized THEN StateOf(address).power_state
          ELSE POWER_OFF,
          << >>)

mpu6050_simulator_get_data(address) ==
    IF StateOf(address).initialized
    THEN Query("get_data", address, << >>, 0,
               LET d == StateOf(address).current_data
               IN  << d.accel_x, d.accel_y, d.accel_z,
                      d.gyro_x, d.gyro_y, d.gyro_z, d.temperature >>)
    ELSE Query("get_data", address, << >>, -ENODEV, << >>)

mpu6050_fifo_get_count(address) ==
    IF StateOf(address).initialized
    THEN Query("fifo_get_count", address, << >>, 0, << StateOf(address).fifo.count >>)
    ELSE Query("fifo_get_count", address, << >>, -ENODEV, << >>)

RECURSIVE FifoReadLoop(_, _, _)
(* the while loop of mpu6050_fifo_read: out are the bytes copied so far *)
FifoReadLoop(fifo, len, out) ==
    IF Len(out) < len /\ fifo.count > 0
    THEN FifoReadLoop(FifoPop(fifo), len, Append(out, ArrGet(fifo.buffer, fifo.tail, 0)))
    ELSE [fifo |-> fifo, out |-> out]

mpu6050_fifo_read(address, len) ==
    LET r == FifoReadLoop(StateOf(address).fifo, len, << >>)
    IN
    /\ UNCHANGED buses
    /\ IF len = 0
       THEN /\ UNCHANGED mpu6050_devices
            /\ Returns(Call("fifo_read", -1, address, -1, << len >>, -EINVAL, << >>))
       ELSE IF ~StateOf(address).initialized
       THEN /\ UNCHANGED mpu6050_devices
            /\ Returns(Call("fifo_read", -1, address, -1, << len >>, -ENODEV, << >>))
       ELSE /\ mpu6050_devices' =
                  [mpu6050_devices EXCEPT ![address % MAX_I2C_DEVICES].fifo = r.fifo]
            /\ Returns(Call("fifo_read", -1, address, -1, << len >>, Len(r.out), r.out))

----------------------------------------------------------------------------
(* Inputs of the callers                                                   *)

(* The outcomes of rand() during one access to a device in state st, up to *)
(* those the access cannot tell apart: the primary draw is only made when  *)
(* 0 < probability < 1, the secondary roll only under ERROR_INTERMITTENT,  *)
(* and the generator only uses rand() or sin() for the moving patterns.    *)
Draws(st) ==
    [inject : IF st.error_probability > 0 /\ st.error_probability < 100
              THEN BOOLEAN ELSE {st.error_probability >= 100},
     roll : IF st.error_mode = ERROR_INTERMITTENT THEN BOOLEAN ELSE {FALSE},
     byte : {90},
     u : IF st.pattern \in {PATTERN_STATIC, PATTERN_GRAVITY_ONLY}
         THEN {0} ELSE {-1, 1}]

(* The outcomes of rand() during a burst of len bytes: the primary draw    *)
(* hits on no byte, on one byte only, or on every byte.                    *)
BurstDraws(st, len) ==
    { [k \in 1..len |-> [inject |-> (k \in hit), roll |-> roll, byte |-> 90, u |-> u]] :
        hit \in (IF st.error_probability > 0 /\ st.error_probability < 100
                 THEN {{}, 1..len} \cup {{k} : k \in 1..len}
                 ELSE IF st.error_probability >= 100 THEN {1..len} ELSE {{}}),
        roll \in (IF st.error_mode = ERROR_INTERMITTENT THEN BOOLEAN ELSE {FALSE}),
        u \in (IF st.pattern \in {PATTERN_STATIC, PATTERN_GRAVITY_ONLY}
               THEN {0} ELSE {-1, 1}) }

(* the state i2c_simulator_init() leaves: zeroed tables, Sampler started *)
Started ==
    /\ g_simulator_initialized = TRUE
    /\ running = TRUE
    /\ background_thread = "running"
    /\ buses = [b \in 0..(I2C_BUS_COUNT - 1) |-> ZeroBus]
    /\ mpu6050_devices = [i \in DevIdx |-> ZeroState]
    /\ last = NoCall
    /\ ticks = 0
    /\ pc = [t \in Callers |-> Idle]
    /\ mutex = AllFree

----------------------------------------------------------------------------
(* Register semantics: sequential callers of one bus, no fault injection   *)

MaxOps == 4

ReadOnlyRegs ==
    (MPU6050_ACCEL_XOUT_H..MPU6050_GYRO_ZOUT_L)
        \cup {MPU6050_FIFO_COUNTH, MPU6050_FIFO_COUNTL, MPU6050_WHO_AM_I}

(* register/value pairs written: 0x00, 0x40, 0xA5 to the registers with    *)
(* side effects and to a plain one, 0x80 to PWR_MGMT_1, 0xA5 to WHO_AM_I   *)
WritePairs ==
    ({MPU6050_PWR_MGMT_1, MPU6050_USER_CTRL, MPU6050_FIFO_R_W, MPU6050_ACCEL_CONFIG}
        \X {0, 64, 165})
    \cup {<< MPU6050_PWR_MGMT_1, 128 >>, << MPU6050_WHO_AM_I, 165 >>}

ReadRegs == {MPU6050_WHO_AM_I, MPU6050_ACCEL_XOUT_H, MPU6050_FIFO_R_W}

Init ==
    /\ Started
    /\ budget = MaxOps
    /\ trace = NoTrace

Next ==
    \/ \E a \in {0, 104} : i2c_simulator_add_device(0, a, "mpu6050")
    \/ \E a \in {0, 104}, w \in WritePairs :
          \E rnd \in Draws(StateOf(a)) :
             i2c_simulator_write_byte(0, a, w[1], w[2], rnd)
    \/ \E a \in {0, 104}, reg \in ReadRegs :
          \E rnd \in Draws(StateOf(a)) :
             i2c_simulator_read_byte(0, a, reg, rnd)
    \/ \E a \in {0, 104} : mpu6050_simulator_set_pattern(a, PATTERN_NOISE)
    \/ \E a \in {0, 104}, en \in BOOLEAN : mpu6050_fifo_enable(a, en)
    \/ \E a \in {0, 104} : Call_mpu6050_fifo_reset(a)
    \/ \E a \in {0, 104} : mpu6050_fifo_read(a, 2)
    \/ \E a \in {0, 104}, st \in {POWER_OFF, POWER_ON} :
          mpu6050_set_power_state(a, st)

Spec == Init /\ [][Next]_vars

(* the device a bus transaction recorded in last addressed is present on   *)
(* its bus and its state machine is initialized                            *)
LastOnLiveDevice ==
    /\ find_device(buses, last.bus, last.address) # NULL
    /\ StateOf(last.address).initialized

(* last is a write_byte to PWR_MGMT_1 with the DEVICE_RESET bit that       *)
(* returned success                                                        *)
LastIsDeviceReset ==
    /\ last.op = "write_byte"
    /\ last.reg = MPU6050_PWR_MGMT_1
    /\ HasBit(last.arg[1], 128)
    /\ last.ret = 0

(* C3: a read_byte of WHO_AM_I on a present, initialized device with no    *)
(* fault injected returns success and the chip id 0x68, whatever register  *)
(* writes, pattern, power-state and FIFO calls came before.                *)
C3_WhoAmIAlwaysReadsChipId ==
    (last.op = "read_byte" /\ last.reg = MPU6050_WHO_AM_I /\ LastOnLiveDevice)
        => (last.ret = 0 /\ last.data = << MPU6050_WHO_AM_I_VALUE >>)

(* a WHO_AM_I read that returned the chip id from a device that has been   *)
(* reset through PWR_MGMT_1 or written and powered on before               *)
C3_Witness ==
    /\ last.op = "read_byte"
    /\ last.reg = MPU6050_WHO_AM_I
    /\ last.data = << MPU6050_WHO_AM_I_VALUE >>
    /\ RegGet(StateOf(last.address).registers, MPU6050_ACCEL_CONFIG) = 165
    /\ StateOf(last.address).power_state = POWER_ON

(* C4: a successful write_byte to PWR_MGMT_1 with bit 7 set leaves the     *)
(* FIFO of the written device with count = 0, head = tail = 0, overflow    *)
(* false and enabled false.                                                *)
C4_DeviceResetResetsOwnFifo ==
    LastIsDeviceReset =>
        LET f == StateOf(last.address).fifo
        IN  f.count = 0 /\ f.head = 0 /\ f.tail = 0 /\ ~f.overflow /\ ~f.enabled

(* C5: a successful write_byte to PWR_MGMT_1 with bit 7 set leaves         *)
(* WHO_AM_I = 0x68, PWR_MGMT_1 = 0x40, every other register 0 and the      *)
(* power state SLEEP.                                                      *)
C5_DeviceResetRestoresRegisters ==
    LastIsDeviceReset =>
        /\ \A r \in 0..255 :
              RegGet(StateOf(last.address).registers, r) =
                  IF r = MPU6050_WHO_AM_I THEN 104
                  ELSE IF r = MPU6050_PWR_MGMT_1 THEN 64 ELSE 0
        /\ StateOf(last.address).power_state = POWER_SLEEP

(* a DEVICE_RESET write with other bits set (0xA5 has the CYCLE bit) has   *)
(* returned                                                                *)
C5_Witness ==
    /\ LastIsDeviceReset
    /\ last.arg = << 165 >>
    /\ StateOf(last.address).sample_count > 0

----------------------------------------------------------------------------
(* Read-only registers: one device on bus 0 that is powered on, sampled    *)
(* and whose FIFO is filled, and writes to every read-only register        *)

MaxReadOnlyOps == 4

InitReadOnly ==
    /\ Started
    /\ budget = MaxReadOnlyOps
    /\ trace = NoTrace

NextReadOnly ==
    \/ i2c_simulator_add_device(0, 104, "mpu6050")
    \/ \E w \in {<< MPU6050_PWR_MGMT_1, 0 >>, << MPU6050_FIFO_R_W, 165 >>,
                  << MPU6050_USER_CTRL, 64 >>} :
          \E rnd \in Draws(StateOf(104)) :
             i2c_simulator_write_byte(0, 104, w[1], w[2], rnd)
    \/ \E reg \in ReadOnlyRegs, data \in {0, 165} :
          \E rnd \in Draws(StateOf(104)) :
             i2c_simulator_write_byte(0, 104, reg, data, rnd)
    \/ \E rnd \in Draws(StateOf(104)) :
          i2c_simulator_read_byte(0, 104, MPU6050_ACCEL_XOUT_H, rnd)

SpecReadOnly == InitReadOnly /\ [][NextReadOnly]_vars

(* C6: a write_byte to a sensor-output register, to FIFO_COUNTH/L or to    *)
(* WHO_AM_I of a present, initialized device, with no fault injected,      *)
(* returns -EACCES and leaves every device's registers, sample, counter,   *)
(* power state and FIFO, and the bus tables, unchanged.                    *)
C6_ReadOnlyWriteRejected ==
    [][ (/\ last'.op = "write_byte"
         /\ last'.reg \in ReadOnlyRegs
         /\ find_device(buses, last'.bus, last'.address) # NULL
         /\ StateOf(last'.address).initialized)
        => (/\ last'.ret = -EACCES
            /\ mpu6050_devices' = mpu6050_devices
            /\ buses' = buses) ]_vars

(* a rejected write to a read-only register of a device whose FIFO holds   *)
(* data                                                                    *)
C6_Witness ==
    /\ last.op = "write_byte"
    /\ last.reg \in ReadOnlyRegs
    /\ last.ret = -EACCES
    /\ StateOf(last.address).fifo.count > 0

----------------------------------------------------------------------------
(* Fault injection: one device on bus 0 with an error mode configured      *)

MaxFaultOps == 4

FaultModes == {ERROR_NONE, ERROR_DEVICE_NOT_FOUND, ERROR_BUS_ERROR}

InitFault ==
    /\ Started
    /\ budget = MaxFaultOps
    /\ trace = NoTrace

NextFault ==
    \/ i2c_simulator_add_device(0, 104, "mpu6050")
    \/ \E e \in FaultModes, p \in {0, 50, 100} :
          mpu6050_simulator_set_error_mode(104, e, p)
    \/ mpu6050_set_power_state(104, POWER_ON)
    \/ \E reg \in {MPU6050_WHO_AM_I, MPU6050_ACCEL_XOUT_H} :
          \E rnd \in Draws(StateOf(104)) :
             i2c_simulator_read_byte(0, 104, reg, rnd)
    \/ \E rnd \in Draws(StateOf(104)) :
          i2c_simulator_write_byte(0, 104, MPU6050_ACCEL_CONFIG, 165, rnd)
    \/ \E rnds \in BurstDraws(StateOf(104), 14) :
          i2c_simulator_read_burst(0, 104, MPU6050_ACCEL_XOUT_H, 14, rnds)
    \/ \E rnds \in BurstDraws(StateOf(104), 2) :
          i2c_simulator_write_burst(0, 104, MPU6050_ACCEL_CONFIG, << 1, 2 >>, rnds)

SpecFault == InitFault /\ [][NextFault]_vars

BusTransactions == {"read_byte", "write_byte", "read_burst", "write_burst"}

(* the return code of a failure injected under an error mode *)
InjectedCode(error) ==
    CASE error = ERROR_DEVICE_NOT_FOUND -> -ENODEV
      [] error = ERROR_BUS_ERROR -> -EIO
      [] OTHER -> 0

(* C7: a read_byte, write_byte, read_burst or write_burst on a present,    *)
(* initialized device configured with DEVICE_NOT_FOUND or BUS_ERROR that   *)
(* returns that mode's failure leaves the device's register map, current   *)
(* sample, sample counter and FIFO as they were before the call, also when *)
(* the fault is drawn on a later byte of a burst.                          *)
C7_InjectedFailureLeavesState ==
    [][ (/\ budget' < budget
         /\ last'.op \in BusTransactions
         /\ find_device(buses, last'.bus, last'.address) # NULL
         /\ StateOf(last'.address).initialized
         /\ StateOf(last'.address).error_mode
               \in {ERROR_DEVICE_NOT_FOUND, ERROR_BUS_ERROR}
         /\ StateOf(last'.address).error_probability > 0
         /\ last'.ret = InjectedCode(StateOf(last'.address).error_mode))
        => LET old == StateOf(last'.address)
               new == mpu6050_devices'[last'.address % MAX_I2C_DEVICES]
           IN  /\ new.registers = old.registers
               /\ new.current_data = old.current_data
               /\ new.sample_count = old.sample_count
               /\ new.fifo = old.fifo ]_vars

----------------------------------------------------------------------------
(* Forced failure: one device on bus 0 whose error mode is only ever set   *)
(* by mpu6050_simulator_inject_error, so the mode configured before any    *)
(* inject_error is the ERROR_NONE of mpu6050_simulator_create.  The        *)
(* history of calls is kept.                                               *)

MaxInjectOps == 4

InitInject ==
    /\ Started
    /\ budget = MaxInjectOps
    /\ trace = EmptyTrace

NextInject ==
    \/ i2c_simulator_add_device(0, 104, "mpu6050")
    \/ mpu6050_simulator_inject_error(104)
    \/ \E rnd \in Draws(StateOf(104)) :
          i2c_simulator_read_byte(0, 104, MPU6050_WHO_AM_I, rnd)
    \/ \E rnd \in Draws(StateOf(104)) :
          i2c_simulator_write_byte(0, 104, MPU6050_ACCEL_CONFIG, 165, rnd)

SpecInject == InitInject /\ [][NextInject]_vars

(* call n of the history is a bus transaction addressed to the device *)
TransactionAt(n, address) ==
    /\ trace.calls[n].op \in BusTransactions
    /\ trace.calls[n].address = address

(* C8: when inject_error(address) has succeeded, the first transaction on  *)
(* the device after it fails, and every later transaction on it (with no   *)
(* further inject_error, and the device not created anew, in between)      *)
(* succeeds, as under the ERROR_NONE that was configured before.           *)
C8_InjectErrorIsOneShot ==
    \A i, j, k \in 1..Len(trace.calls) :
        (/\ i < j /\ j < k
         /\ trace.calls[i].op = "inject_error"
         /\ trace.calls[i].ret = 0
         /\ TransactionAt(j, trace.calls[i].address)
         /\ TransactionAt(k, trace.calls[i].address)
         /\ \A n \in (i + 1)..(j - 1) : ~TransactionAt(n, trace.calls[i].address)
         /\ \A n \in (i + 1)..(k - 1) :
               trace.calls[n].op \notin {"inject_error", "add_device"})
        => (trace.calls[j].ret < 0 /\ trace.calls[k].ret = 0)

----------------------------------------------------------------------------
(* Uninitialized devices: address 0x00 is never created; address 0x68 is   *)
(* created on both buses and destroyed by a remove_device on either, which *)
(* leaves the other bus's slot bound to the destroyed state machine.       *)

MaxUninitOps == 4

InitUninit ==
    /\ Started
    /\ budget = MaxUninitOps
    /\ trace = NoTrace

NextUninit ==
    \/ \E bus \in {0, 1} : i2c_simulator_add_device(bus, 104, "mpu6050")
    \/ \E bus \in {0, 1} : i2c_simulator_remove_device(bus, 104)
    \/ \E bus \in {0, 1} : \E rnd \in Draws(StateOf(104)) :
          i2c_simulator_read_byte(bus, 104, MPU6050_WHO_AM_I, rnd)
    \/ \E bus \in {0, 1} : \E rnd \in Draws(StateOf(104)) :
          i2c_simulator_write_byte(bus, 104, MPU6050_ACCEL_CONFIG, 165, rnd)
    \/ \E a \in {0, 104} : mpu6050_simulator_set_pattern(a, PATTERN_STATIC)
    \/ \E a \in {0, 104} : mpu6050_simulator_set_error_mode(a, ERROR_NONE, 0)
    \/ \E a \in {0, 104} : mpu6050_set_power_state(a, POWER_ON)
    \/ \E a \in {0, 104} : mpu6050_simulator_get_data(a)
    \/ \E a \in {0, 104} : mpu6050_simulator_inject_error(a)
    \/ \E a \in {0, 104} : mpu6050_fifo_enable(a, TRUE)
    \/ \E a \in {0, 104} : Call_mpu6050_fifo_reset(a)
    \/ \E a \in {0, 104} : mpu6050_fifo_get_count(a)
    \/ \E a \in {0, 104} : mpu6050_fifo_read(a, 2)

SpecUninit == InitUninit /\ [][NextUninit]_vars

(* the operations addressed to a device state machine *)
DeviceOperations ==
    {"read_byte", "write_byte", "set_pattern", "set_error_mode",
     "set_power_state", "get_data", "inject_error", "fifo_enable",
     "fifo_reset", "fifo_get_count", "fifo_read"}

(* C9: an operation addressed to a device state machine whose initialized  *)
(* flag is false returns -ENODEV and leaves every device state machine     *)
(* unchanged.                                                              *)
C9_UninitializedDeviceNotFound ==
    [][ (/\ budget' < budget
         /\ last'.op \in DeviceOperations
         /\ ~StateOf(last'.address).initialized)
        => (/\ last'.ret = -ENODEV
            /\ mpu6050_devices' = mpu6050_devices) ]_vars

----------------------------------------------------------------------------
(* Background Sampler: a device is added, powered on and its FIFO enabled, *)
(* and the Sampler thread runs between the calls                           *)

MaxSamplerOps == 3

(* Sampler iterations followed after a call: 74 frames of 14 bytes are the *)
(* first to exceed FIFO_BUFFER_SIZE                                        *)
MaxTicks == 75

Min(a, b) == IF a < b THEN a ELSE b

InitSampler ==
    /\ Started
    /\ budget = MaxSamplerOps
    /\ trace = NoTrace

NextSampler ==
    \/ i2c_simulator_add_device(0, 104, "mpu6050")
    \/ mpu6050_set_power_state(104, POWER_ON)
    \/ mpu6050_fifo_enable(104, TRUE)
    \/ (ticks < MaxTicks /\ background_simulation_thread)

SpecSampler == InitSampler /\ [][NextSampler]_vars

(* C2: when the last call is a successful fifo_enable(true) on a device    *)
(* whose power state is ON and the Sampler has made k iterations since,    *)
(* the device's FIFO has count = min(14 k, 1024) and overflow = (14 k >    *)
(* 1024).                                                                  *)
C2_SamplerFillsFifo ==
    (/\ last.op = "fifo_enable"
     /\ last.arg = << 1 >>
     /\ last.ret = 0
     /\ StateOf(last.address).power_state = POWER_ON)
    => (/\ StateOf(last.address).fifo.count = Min(14 * ticks, FIFO_BUFFER_SIZE)
        /\ StateOf(last.address).fifo.overflow = (14 * ticks > FIFO_BUFFER_SIZE))

----------------------------------------------------------------------------
(* Bus registry: devices of both types are added to and removed from bus 0 *)
(* whose slot table has been used before.  The initial states are the ones *)
(* i2c_simulator_init() followed by k cycles of add_device(0, 0x68,        *)
(* "mpu6050") and remove_device(0, 0x68) leaves: k slots at 0x68 that are  *)
(* no longer present, device_count = k (remove_device does not lower it)   *)
(* and, for k > 0, the destroyed state machine of 0x68.                    *)

MaxRegistryOps == 4

(* two free slots are left of the MAX_I2C_DEVICES *)
CyclesBefore == MAX_I2C_DEVICES - 2

RetiredSlot ==
    [address |-> 104, present |-> FALSE, device_data |-> NULL, bound |-> TRUE]

AfterCycles(k) ==
    /\ g_simulator_initialized = TRUE
    /\ running = TRUE
    /\ background_thread = "running"
    /\ buses = [b \in 0..(I2C_BUS_COUNT - 1) |->
                  IF b = 0 THEN [devices |-> [i \in 1..k |-> RetiredSlot],
                                 device_count |-> k]
                  ELSE ZeroBus]
    /\ mpu6050_devices =
          [i \in DevIdx |->
              IF i = 104 /\ k > 0 THEN [CreatedState EXCEPT !.initialized = FALSE]
              ELSE ZeroState]
    /\ ticks = 0
    /\ pc = [t \in Callers |-> Idle]
    /\ mutex = AllFree

InitRegistry ==
    /\ \E k \in {0, CyclesBefore} : AfterCycles(k)
    /\ last = NoCall
    /\ budget = MaxRegistryOps
    /\ trace = NoTrace

NextRegistry ==
    \/ \E a \in Addresses, type \in {"mpu6050", "bmp280"} :
          i2c_simulator_add_device(0, a, type)
    \/ \E a \in {0, 104} : i2c_simulator_remove_device(0, a)
    \/ mpu6050_simulator_set_pattern(104, PATTERN_NOISE)

SpecRegistry == InitRegistry /\ [][NextRegistry]_vars

(* the addresses find_device finds on a bus *)
FoundOn(bs, bus) ==
    {ArrGet(bs[bus].devices, i, ZeroSlot).address :
        i \in {n \in 0..(bs[bus].device_count - 1) :
                  ArrGet(bs[bus].devices, n, ZeroSlot).present}}

(* C10: add_device on a valid bus returns -EEXIST when the address is      *)
(* found on the bus; otherwise -ENOMEM when device_count has reached       *)
(* MAX_I2C_DEVICES; otherwise -ENOTSUP when the type is not "mpu6050"; and *)
(* an add_device that returned one of the three leaves the addresses found *)
(* on every bus, every device_count and every device state machine as they *)
(* were.                                                                   *)
C10_FailedAddLeavesState ==
    [][ (budget' < budget /\ last'.op = "add_device")
        => LET bus == last'.bus
               exists == find_device(buses, bus, last'.address) # NULL
               full == buses[bus].device_count >= MAX_I2C_DEVICES
           IN  /\ exists => last'.ret = -EEXIST
               /\ (~exists /\ full) => last'.ret = -ENOMEM
               /\ (~exists /\ ~full /\ last'.arg # << "mpu6050" >>)
                     => last'.ret = -ENOTSUP
               /\ last'.ret \in {-EEXIST, -ENOMEM, -ENOTSUP}
                     => /\ \A b \in 0..(I2C_BUS_COUNT - 1) :
                              /\ FoundOn(buses', b) = FoundOn(buses, b)
                              /\ buses'[b].device_count = buses[b].device_count
                        /\ mpu6050_devices' = mpu6050_devices ]_vars

(* an add_device was refused for lack of a slot while a configured device  *)
(* is on the bus                                                           *)
C10_Witness ==
    /\ last.op = "add_device"
    /\ last.ret = -ENOMEM
    /\ StateOf(104).initialized
    /\ StateOf(104).pattern = PATTERN_NOISE

----------------------------------------------------------------------------
(* Concurrent callers.  Two threads call i2c_simulator_read_byte(0, 0x68,  *)
(* FIFO_R_W) and mpu6050_fifo_read(0x68, buf, 1); each step below is what  *)
(* a thread does between two acquisitions or releases of a mutex, or a     *)
(* read of shared state made without one.  The device is added and its     *)
(* FIFO filled through FIFO_R_W writes while both threads are outside a    *)
(* call.  No error mode is configured, so no fault is injected.            *)

MaxConcOps == 4

At(t, at) == pc' = [pc EXCEPT ![t] = [@ EXCEPT !.at = at]]

(* a thread returns from its call *)
ThreadReturns(t, call) ==
    /\ pc' = [pc EXCEPT ![t] = Idle]
    /\ last' = call
    /\ trace' = trace
    /\ ticks' = 0

Lifecycle == << g_simulator_initialized, running, background_thread >>

(* i2c_simulator_read_byte: the initialized test and acquire_bus_lock *)
read_byte_acquire_bus_lock(t) ==
    /\ pc[t].at = "idle"
    /\ budget > 0
    /\ g_simulator_initialized
    /\ mutex.bus = 0
    /\ mutex' = [mutex EXCEPT !.bus = t]
    /\ budget' = budget - 1
    /\ At(t, "find_device")
    /\ UNCHANGED << Lifecycle, buses, mpu6050_devices, last, ticks, trace >>

(* find_device under the bus lock; -ENODEV when the device is not found *)
read_byte_find_device(t) ==
    /\ pc[t].at = "find_device"
    /\ IF find_device(buses, 0, 104) = NULL
       THEN /\ mutex' = [mutex EXCEPT !.bus = 0]
            /\ ThreadReturns(t, Call("read_byte", 0, 104, MPU6050_FIFO_R_W,
                                     << >>, -ENODEV, << >>))
            /\ UNCHANGED << Lifecycle, buses, mpu6050_devices, budget >>
       ELSE /\ At(t, "read_register")
            /\ UNCHANGED << Lifecycle, buses, mpu6050_devices, last, ticks,
                            budget, mutex, trace >>

(* mpu6050_read_register up to the test of case MPU6050_FIFO_R_W:          *)
(* state->fifo.count > 0 is read without the fifo mutex                    *)
read_register_test_count(t) ==
    /\ pc[t].at = "read_register"
    /\ IF ~StateOf(104).initialized
       THEN /\ pc' = [pc EXCEPT ![t] = [at |-> "release_bus_lock", data |-> -ENODEV]]
       ELSE IF StateOf(104).fifo.count > 0
       THEN At(t, "lock_fifo")
       ELSE pc' = [pc EXCEPT ![t] = [at |-> "release_bus_lock", data |-> 0]]
    /\ UNCHANGED << Lifecycle, buses, mpu6050_devices, last, ticks, budget,
                    mutex, trace >>

(* pthread_mutex_lock(&state->fifo.mutex) *)
read_register_lock_fifo(t) ==
    /\ pc[t].at = "lock_fifo"
    /\ mutex.fifo = 0
    /\ mutex' = [mutex EXCEPT !.fifo = t]
    /\ At(t, "pop")
    /\ UNCHANGED << Lifecycle, buses, mpu6050_devices, last, ticks, budget, trace >>

(* the pop under the fifo mutex, and its unlock *)
read_register_pop(t) ==
    /\ pc[t].at = "pop"
    /\ pc' = [pc EXCEPT ![t] =
                [at |-> "release_bus_lock",
                 data |-> ArrGet(StateOf(104).fifo.buffer, StateOf(104).fifo.tail, 0)]]
    /\ mpu6050_devices' = [mpu6050_devices EXCEPT ![104].fifo = FifoPop(@)]
    /\ mutex' = [mutex EXCEPT !.fifo = 0]
    /\ UNCHANGED << Lifecycle, buses, last, ticks, budget, trace >>

(* release_bus_lock and the return of i2c_simulator_read_byte *)
read_byte_release_bus_lock(t) ==
    /\ pc[t].at = "release_bus_lock"
    /\ mutex' = [mutex EXCEPT !.bus = 0]
    /\ ThreadReturns(t, IF pc[t].data < 0
                        THEN Call("read_byte", 0, 104, MPU6050_FIFO_R_W,
                                  << >>, pc[t].data, << >>)
                        ELSE Call("read_byte", 0, 104, MPU6050_FIFO_R_W,
                                  << >>, 0, << pc[t].data >>))
    /\ UNCHANGED << Lifecycle, buses, mpu6050_devices, budget >>

(* mpu6050_fifo_read: the initialized test, made before any lock *)
fifo_read_test_initialized(t) ==
    /\ pc[t].at = "idle"
    /\ budget > 0
    /\ budget' = budget - 1
    /\ IF ~StateOf(104).initialized
       THEN /\ ThreadReturns(t, Call("fifo_read", -1, 104, -1, << 1 >>, -ENODEV, << >>))
       ELSE /\ At(t, "acquire_device_lock")
            /\ UNCHANGED << last, ticks, trace >>
    /\ UNCHANGED << Lifecycle, buses, mpu6050_devices, mutex >>

fifo_read_acquire_device_lock(t) ==
    /\ pc[t].at = "acquire_device_lock"
    /\ mutex.device = 0
    /\ mutex' = [mutex EXCEPT !.device = t]
    /\ At(t, "fifo_read_lock_fifo")
    /\ UNCHANGED << Lifecycle, buses, mpu6050_devices, last, ticks, budget, trace >>

fifo_read_lock_fifo(t) ==
    /\ pc[t].at = "fifo_read_lock_fifo"
    /\ mutex.fifo = 0
    /\ mutex' = [mutex EXCEPT !.fifo = t]
    /\ At(t, "fifo_read_loop")
    /\ UNCHANGED << Lifecycle, buses, mpu6050_devices, last, ticks, budget, trace >>

(* the while loop under both locks, the two unlocks and the return *)
fifo_read_loop(t) ==
    LET r == FifoReadLoop(StateOf(104).fifo, 1, << >>)
    IN  /\ pc[t].at = "fifo_read_loop"
        /\ mpu6050_devices' = [mpu6050_devices EXCEPT ![104].fifo = r.fifo]
        /\ mutex' = [mutex EXCEPT !.fifo = 0, !.device = 0]
        /\ ThreadReturns(t, Call("fifo_read", -1, 104, -1, << 1 >>, Len(r.out), r.out))
        /\ UNCHANGED << Lifecycle, buses, budget >>

InitConc ==
    /\ Started
    /\ budget = MaxConcOps
    /\ trace = NoTrace

NextConc ==
    \/ i2c_simulator_add_device(0, 104, "mpu6050")
    \/ \E rnd \in Draws(StateOf(104)) :
          i2c_simulator_write_byte(0, 104, MPU6050_FIFO_R_W, 165, rnd)
    \/ \E t \in Callers :
          \/ read_byte_acquire_bus_lock(t)
          \/ read_byte_find_device(t)
          \/ read_register_test_count(t)
          \/ read_register_lock_fifo(t)
          \/ read_register_pop(t)
          \/ read_byte_release_bus_lock(t)
          \/ fifo_read_test_initialized(t)
          \/ fifo_read_acquire_device_lock(t)
          \/ fifo_read_lock_fifo(t)
          \/ fifo_read_loop(t)

SpecConc == InitConc /\ [][NextConc]_vars

(* C1: the FIFO count of every device is within 0..FIFO_BUFFER_SIZE in     *)
(* every reachable state, whatever the interleaving of the callers.        *)
C1_FifoCountWithinCapacity ==
    \A i \in DevIdx :
        /\ mpu6050_devices[i].fifo.count >= 0
        /\ mpu6050_devices[i].fifo.count <= FIFO_BUFFER_SIZE

----------------------------------------------------------------------------
(* Device lifetimes: address 0x68 is added to bus 0, written, configured,  *)
(* removed and added again.  The history of calls is kept.                 *)

MaxLifetimeOps == 4

InitLifetime ==
    /\ Started
    /\ budget = MaxLifetimeOps
    /\ trace = EmptyTrace

NextLifetime ==
    \/ i2c_simulator_add_device(0, 104, "mpu6050")
    \/ i2c_simulator_remove_device(0, 104)
    \/ \E reg \in {MPU6050_ACCEL_CONFIG, MPU6050_FIFO_R_W} :
          \E rnd \in Draws(StateOf(104)) :
             i2c_simulator_write_byte(0, 104, reg, 165, rnd)
    \/ \E rnd \in Draws(StateOf(104)) :
          i2c_simulator_read_byte(0, 104, MPU6050_WHO_AM_I, rnd)
    \/ \E rnds \in BurstDraws(StateOf(104), 2) :
          i2c_simulator_read_burst(0, 104, MPU6050_ACCEL_XOUT_H, 2, rnds)
    \/ \E rnds \in BurstDraws(StateOf(104), 2) :
          i2c_simulator_write_burst(0, 104, MPU6050_ACCEL_CONFIG, << 1, 2 >>, rnds)
    \/ mpu6050_fifo_enable(104, TRUE)
    \/ mpu6050_simulator_set_error_mode(104, ERROR_BUS_ERROR, 0)
    \/ mpu6050_simulator_set_pattern(104, PATTERN_NOISE)

SpecLifetime == InitLifetime /\ [][NextLifetime]_vars

(* C11: when add_device of an "mpu6050" has returned success, the device   *)
(* at that address has WHO_AM_I = 0x68, PWR_MGMT_1 = 0x40, every other     *)
(* register 0, power state SLEEP, pattern GRAVITY_ONLY, error mode NONE    *)
(* with probability 0, sample counter 0 and an empty, disabled FIFO whose  *)
(* overflow flag is clear, whatever was done to the address before.        *)
C11_AddDeviceGivesDefaults ==
    (last.op = "add_device" /\ last.ret = 0)
    => LET st == StateOf(last.address)
       IN  /\ st.initialized
           /\ \A r \in 0..255 :
                 RegGet(st.registers, r) =
                     IF r = MPU6050_WHO_AM_I THEN 104
                     ELSE IF r = MPU6050_PWR_MGMT_1 THEN 64 ELSE 0
           /\ st.power_state = POWER_SLEEP
           /\ st.pattern = PATTERN_GRAVITY_ONLY
           /\ st.error_mode = ERROR_NONE
           /\ st.error_probability = 0
           /\ st.sample_count = 0
           /\ st.fifo.count = 0
           /\ st.fifo.head = st.fifo.tail
           /\ ~st.fifo.enabled
           /\ ~st.fifo.overflow

(* the address was added, a byte was pushed into its FIFO, it was removed  *)
(* and has been added again                                                *)
C11_Witness ==
    /\ Len(trace.calls) = 4
    /\ trace.calls[2].op = "write_byte"
    /\ trace.calls[2].reg = MPU6050_FIFO_R_W
    /\ trace.calls[2].ret = 0
    /\ trace.calls[3].op = "remove_device"
    /\ trace.calls[3].ret = 0
    /\ last.op = "add_device"
    /\ last.ret = 0

(* a successful remove_device(bus, address) is in the history with no      *)
(* successful add_device(bus, address) after it                            *)
Removed(bus, address) ==
    \E i \in 1..Len(trace.calls) :
        /\ trace.calls[i].op = "remove_device"
        /\ trace.calls[i].bus = bus
        /\ trace.calls[i].address = address
        /\ trace.calls[i].ret = 0
        /\ \A n \in (i + 1)..Len(trace.calls) :
              ~(/\ trace.calls[n].op = "add_device"
                /\ trace.calls[n].bus = bus
                /\ trace.calls[n].address = address
                /\ trace.calls[n].ret = 0)

(* C12: remove_device of an address not found on the bus returns -ENODEV   *)
(* and leaves the bus tables and every device state machine unchanged; a   *)
(* successful remove_device leaves the state machine of the address with   *)
(* initialized false; and a read_byte, write_byte, read_burst or           *)
(* write_burst (of at least one byte) to a removed (bus, address) returns  *)
(* -ENODEV as long as no add_device has succeeded for it again.            *)
C12_RemovedDeviceNotFound ==
    [][ (budget' < budget)
        => /\ (/\ last'.op = "remove_device"
               /\ find_device(buses, last'.bus, last'.address) = NULL)
                  => (/\ last'.ret = -ENODEV
                      /\ buses' = buses
                      /\ mpu6050_devices' = mpu6050_devices)
           /\ (last'.op = "remove_device" /\ last'.ret = 0)
                  => ~mpu6050_devices'[last'.address % MAX_I2C_DEVICES].initialized
           /\ (/\ last'.op \in BusTransactions
               /\ Removed(last'.bus, last'.address))
                  => last'.ret = -ENODEV ]_vars

(* a burst read of a removed device has returned the not-found error after *)
(* the device had been written                                             *)
C12_Witness ==
    /\ Len(trace.calls) = 4
    /\ trace.calls[2].op = "write_byte"
    /\ trace.calls[2].ret = 0
    /\ trace.calls[3].op = "remove_device"
    /\ trace.calls[3].ret = 0
    /\ last.op = "read_burst"
    /\ last.ret = -ENODEV

----------------------------------------------------------------------------
(* Lock nesting: two callers interleave, statement by statement around the *)
(* mutex operations, a DEVICE_RESET write to 0x68 on bus 0 (which calls    *)
(* mpu6050_fifo_reset(0) under the bus lock), add_device of address 0 on   *)
(* bus 1, set_power_state of 0x68, and the FIFO reads of SpecConc.         *)

MaxLocksOps == 4

(* what a write of PWR_MGMT_1 carries: the reset bit, or a wake-up *)
PowerWrites == {128, 0}

(* i2c_simulator_write_byte: the initialized test and acquire_bus_lock *)
write_byte_acquire_bus_lock(t, data) ==
    /\ pc[t].at = "idle"
    /\ budget > 0
    /\ g_simulator_initialized
    /\ mutex.bus = 0
    /\ mutex' = [mutex EXCEPT !.bus = t]
    /\ budget' = budget - 1
    /\ pc' = [pc EXCEPT ![t] = [at |-> "write_byte_find_device", data |-> data]]
    /\ UNCHANGED << Lifecycle, buses, mpu6050_devices, last, ticks, trace >>

PowerWrite(data, ret) ==
    Call("write_byte", 0, 104, MPU6050_PWR_MGMT_1, << data >>, ret, << >>)

(* find_device under the bus lock; -ENODEV when the device is not found *)
write_byte_find_device(t) ==
    /\ pc[t].at = "write_byte_find_device"
    /\ IF find_device(buses, 0, 104) = NULL
       THEN /\ mutex' = [mutex EXCEPT !.bus = 0]
            /\ ThreadReturns(t, PowerWrite(pc[t].data, -ENODEV))
            /\ UNCHANGED << Lifecycle, buses, mpu6050_devices, budget >>
       ELSE /\ At(t, "write_register")
            /\ UNCHANGED << Lifecycle, buses, mpu6050_devices, last, ticks,
                            budget, mutex, trace >>

(* mpu6050_write_register of PWR_MGMT_1 under the bus lock alone: every    *)
(* store of handle_power_management up to its call mpu6050_fifo_reset(0),  *)
(* which the next steps make when the reset bit was written                *)
write_register_power_management(t, rnd) ==
    LET r == mpu6050_write_register(mpu6050_devices, 104, MPU6050_PWR_MGMT_1,
                                    pc[t].data, rnd)
    IN  /\ pc[t].at = "write_register"
        /\ mpu6050_devices' = [r.devs EXCEPT ![0].fifo = mpu6050_devices[0].fifo]
        /\ IF r.ret = 0 /\ HasBit(pc[t].data, 128)
           THEN At(t, "fifo_reset")
           ELSE pc' = [pc EXCEPT ![t] = [at |-> "write_byte_release_bus_lock",
                                         data |-> IF r.ret < 0 THEN r.ret ELSE @.data]]
        /\ UNCHANGED << Lifecycle, buses, last, ticks, budget, mutex, trace >>

(* mpu6050_fifo_reset(0): the initialized test, made before any lock *)
fifo_reset_test_initialized(t) ==
    /\ pc[t].at = "fifo_reset"
    /\ IF ~mpu6050_devices[0].initialized
       THEN At(t, "write_byte_release_bus_lock")
       ELSE At(t, "fifo_reset_acquire_device_lock")
    /\ UNCHANGED << Lifecycle, buses, mpu6050_devices, last, ticks, budget,
                    mutex, trace >>

fifo_reset_acquire_device_lock(t) ==
    /\ pc[t].at = "fifo_reset_acquire_device_lock"
    /\ mutex.device0 = 0
    /\ mutex' = [mutex EXCEPT !.device0 = t]
    /\ At(t, "fifo_reset_lock_fifo")
    /\ UNCHANGED << Lifecycle, buses, mpu6050_devices, last, ticks, budget, trace >>

(* mpu6050_fifo_reset taking the mutex of bus 1 where it takes the FIFO    *)
(* mutex, under the device lock                                            *)
fifo_reset_lock_fifo_LocksBus(t) ==
    /\ pc[t].at = "fifo_reset_lock_fifo"
    /\ mutex.bus1 = 0
    /\ mutex' = [mutex EXCEPT !.bus1 = t]
    /\ At(t, "fifo_reset_fields")
    /\ UNCHANGED << Lifecycle, buses, mpu6050_devices, last, ticks, budget, trace >>

fifo_reset_lock_fifo(t) ==
    /\ pc[t].at = "fifo_reset_lock_fifo"
    /\ mutex.fifo0 = 0
    /\ mutex' = [mutex EXCEPT !.fifo0 = t]
    /\ At(t, "fifo_reset_fields")
    /\ UNCHANGED << Lifecycle, buses, mpu6050_devices, last, ticks, budget, trace >>

(* the four stores under both locks, and the two unlocks *)
fifo_reset_fields(t) ==
    /\ pc[t].at = "fifo_reset_fields"
    /\ mpu6050_devices' = mpu6050_fifo_reset(mpu6050_devices, 0).devs
    /\ mutex' = [mutex EXCEPT !.fifo0 = 0, !.device0 = 0]
    /\ At(t, "write_byte_release_bus_lock")
    /\ UNCHANGED << Lifecycle, buses, last, ticks, budget, trace >>

(* release_bus_lock and the return of i2c_simulator_write_byte *)
write_byte_release_bus_lock(t) ==
    /\ pc[t].at = "write_byte_release_bus_lock"
    /\ mutex' = [mutex EXCEPT !.bus = 0]
    /\ ThreadReturns(t, IF pc[t].data < 0
                        THEN PowerWrite(0, pc[t].data)
                        ELSE PowerWrite(pc[t].data, 0))
    /\ UNCHANGED << Lifecycle, buses, mpu6050_devices, budget >>

(* the addresses added to bus 1: both have state machine 0 *)
Bus1Addresses == {0, 128}

AddOnBus1(address, ret) ==
    Call("add_device", 1, address, -1, << "mpu6050" >>, ret, << >>)

(* i2c_simulator_add_device(1, address, "mpu6050"): the tests and          *)
(* acquire_bus_lock                                                        *)
add_device_acquire_bus_lock(t, address) ==
    /\ pc[t].at = "idle"
    /\ budget > 0
    /\ g_simulator_initialized
    /\ mutex.bus1 = 0
    /\ mutex' = [mutex EXCEPT !.bus1 = t]
    /\ budget' = budget - 1
    /\ pc' = [pc EXCEPT ![t] = [at |-> "add_device_slot", data |-> address]]
    /\ UNCHANGED << Lifecycle, buses, mpu6050_devices, last, ticks, trace >>

(* under the bus lock: the duplicate and capacity tests, then the slot is  *)
(* taken and given its address                                             *)
add_device_slot(t) ==
    LET slot == buses[1].device_count
    IN  /\ pc[t].at = "add_device_slot"
        /\ IF find_device(buses, 1, pc[t].data) # NULL
           THEN /\ mutex' = [mutex EXCEPT !.bus1 = 0]
                /\ ThreadReturns(t, AddOnBus1(pc[t].data, -EEXIST))
                /\ UNCHANGED << Lifecycle, buses, mpu6050_devices, budget >>
           ELSE IF slot >= MAX_I2C_DEVICES
           THEN /\ mutex' = [mutex EXCEPT !.bus1 = 0]
                /\ ThreadReturns(t, AddOnBus1(pc[t].data, -ENOMEM))
                /\ UNCHANGED << Lifecycle, buses, mpu6050_devices, budget >>
           ELSE /\ buses' = [buses EXCEPT
                               ![1].device_count = slot + 1,
                               ![1].devices = ArrSet(@, slot,
                                   [SlotOf(1, slot) EXCEPT !.address = pc[t].data,
                                                           !.present = TRUE],
                                   ZeroSlot)]
                /\ At(t, "create_acquire_device_lock")
                /\ UNCHANGED << Lifecycle, mpu6050_devices, last, ticks,
                                budget, mutex, trace >>

(* mpu6050_simulator_create: acquire_device_lock(address) *)
create_acquire_device_lock(t) ==
    /\ pc[t].at = "create_acquire_device_lock"
    /\ mutex.device0 = 0
    /\ mutex' = [mutex EXCEPT !.device0 = t]
    /\ At(t, "create_state")
    /\ UNCHANGED << Lifecycle, buses, mpu6050_devices, last, ticks, budget, trace >>

(* the stores of mpu6050_simulator_create under the device lock and its    *)
(* release; the memset of state->fifo covers fifo.mutex, which is taken    *)
(* for device 0 only by holders of this device lock                        *)
create_state(t) ==
    /\ pc[t].at = "create_state"
    /\ mpu6050_devices' = mpu6050_simulator_create(mpu6050_devices, pc[t].data)
    /\ mutex' = [mutex EXCEPT !.device0 = 0, !.fifo0 = 0]
    /\ At(t, "add_device_bind")
    /\ UNCHANGED << Lifecycle, buses, last, ticks, budget, trace >>

(* device_data and the callbacks are set, release_bus_lock, return 0 *)
add_device_bind(t) ==
    LET slot == buses[1].device_count - 1
    IN  /\ pc[t].at = "add_device_bind"
        /\ buses' = [buses EXCEPT
                       ![1].devices = ArrSet(@, slot,
                           [SlotOf(1, slot) EXCEPT !.device_data = 0,
                                                   !.bound = TRUE],
                           ZeroSlot)]
        /\ mutex' = [mutex EXCEPT !.bus1 = 0]
        /\ ThreadReturns(t, AddOnBus1(pc[t].data, 0))
        /\ UNCHANGED << Lifecycle, mpu6050_devices, budget >>

(* mpu6050_set_power_state(0x68, POWER_ON): the tests, made before the lock *)
set_power_state_test_initialized(t) ==
    /\ pc[t].at = "idle"
    /\ budget > 0
    /\ budget' = budget - 1
    /\ IF ~StateOf(104).initialized
       THEN ThreadReturns(t, Call("set_power_state", -1, 104, -1,
                                  << POWER_ON >>, -EINVAL, << >>))
       ELSE /\ At(t, "set_power_state_acquire_device_lock")
            /\ UNCHANGED << last, ticks, trace >>
    /\ UNCHANGED << Lifecycle, buses, mpu6050_devices, mutex >>

set_power_state_acquire_device_lock(t) ==
    /\ pc[t].at = "set_power_state_acquire_device_lock"
    /\ mutex.device = 0
    /\ mutex' = [mutex EXCEPT !.device = t]
    /\ At(t, "set_power_state_store")
    /\ UNCHANGED << Lifecycle, buses, mpu6050_devices, last, ticks, budget, trace >>

(* the two stores under the device lock, its release and the return *)
set_power_state_store(t) ==
    /\ pc[t].at = "set_power_state_store"
    /\ mpu6050_devices' =
          [mpu6050_devices EXCEPT
              ![104].power_state = POWER_ON,
              ![104].registers =
                  RegSet(@, MPU6050_PWR_MGMT_1,
                         ClearBit(RegGet(@, MPU6050_PWR_MGMT_1), 64))]
    /\ mutex' = [mutex EXCEPT !.device = 0]
    /\ ThreadReturns(t, Call("set_power_state", -1, 104, -1,
                             << POWER_ON >>, 0, << >>))
    /\ UNCHANGED << Lifecycle, buses, budget >>

(* the statements of the callers that are in the middle of a call *)
LocksThreadStep(t) ==
    \/ write_byte_find_device(t)
    \/ \E rnd \in Draws(StateOf(104)) : write_register_power_management(t, rnd)
    \/ fifo_reset_test_initialized(t)
    \/ fifo_reset_acquire_device_lock(t)
    \/ fifo_reset_lock_fifo(t)
    \/ fifo_reset_fields(t)
    \/ write_byte_release_bus_lock(t)
    \/ add_device_slot(t)
    \/ create_acquire_device_lock(t)
    \/ create_state(t)
    \/ add_device_bind(t)
    \/ set_power_state_acquire_device_lock(t)
    \/ set_power_state_store(t)
    \/ read_byte_find_device(t)
    \/ read_register_test_count(t)
    \/ read_register_lock_fifo(t)
    \/ read_register_pop(t)
    \/ read_byte_release_bus_lock(t)
    \/ fifo_read_acquire_device_lock(t)
    \/ fifo_read_lock_fifo(t)
    \/ fifo_read_loop(t)

InitLocks ==
    /\ Started
    /\ budget = MaxLocksOps
    /\ trace = NoTrace

NextLocks ==
    \/ i2c_simulator_add_device(0, 104, "mpu6050")
    \/ \E rnd \in Draws(StateOf(104)) :
          i2c_simulator_write_byte(0, 104, MPU6050_FIFO_R_W, 165, rnd)
    \/ \E t \in Callers :
          \/ \E data \in PowerWrites : write_byte_acquire_bus_lock(t, data)
          \/ \E address \in Bus1Addresses : add_device_acquire_bus_lock(t, address)
          \/ set_power_state_test_initialized(t)
          \/ read_byte_acquire_bus_lock(t)
          \/ fifo_read_test_initialized(t)
          \/ LocksThreadStep(t)

SpecLocks == InitLocks /\ [][NextLocks]_vars

(* the mutexes a caller holds, by rank: bus 1, device 2, FIFO 3 *)
Holds(m, t, rank) ==
    CASE rank = 1 -> m.bus = t \/ m.bus1 = t
      [] rank = 2 -> m.device = t \/ m.device0 = t
      [] rank = 3 -> m.fifo = t \/ m.fifo0 = t

Acquires(t, rank) == Holds(mutex', t, rank) /\ ~Holds(mutex, t, rank)

(* C13: no caller acquires a bus lock while it holds a device lock or a    *)
(* FIFO lock, nor a device lock while it holds a FIFO lock, on any path    *)
(* including the DEVICE_RESET path; and whenever a caller is in the middle *)
(* of a call, some caller in the middle of a call can take its next step:  *)
(* no interleaving reaches a deadlock.                                     *)
C13_LockOrderNoDeadlock ==
    /\ [][ \A t \in Callers :
             /\ Acquires(t, 1) => ~Holds(mutex, t, 2) /\ ~Holds(mutex, t, 3)
             /\ Acquires(t, 2) => ~Holds(mutex, t, 3) ]_vars
    /\ [](~AllIdle => ENABLED (\E t \in Callers : LocksThreadStep(t)))

(* a caller on the DEVICE_RESET path holds the bus lock, the device lock   *)
(* and the FIFO lock together while the other caller waits for the device  *)
(* lock it holds                                                           *)
C13_Witness ==
    \E t \in Callers : \E o \in Callers \ {t} :
        /\ Holds(mutex, t, 1)
        /\ Holds(mutex, t, 2)
        /\ Holds(mutex, t, 3)
        /\ pc[t].at = "fifo_reset_fields"
        /\ pc[o].at = "create_acquire_device_lock"

(* the device lock and the FIFO mutex of state machine i *)
DeviceLockOf(m, i) == IF i = 0 THEN m.device0 ELSE m.device

FifoLockOf(m, i) == IF i = 0 THEN m.fifo0 ELSE m.fifo

(* the state machines the callers of SpecLocks reach *)
LockedIdx == {0, 104}

(* C14: a statement of a caller that changes the register map, the current *)
(* sample, the power state or the sample counter of a device is made while *)
(* this caller holds the lock of the device, and one that changes the FIFO *)
(* head, tail, count or buffer is made while it holds the FIFO mutex.      *)
C14_AccessUnderLock ==
    [][ \A t \in Callers : \A i \in LockedIdx :
          LET old == mpu6050_devices[i]
              new == mpu6050_devices'[i]
          IN  pc'[t] # pc[t]
              => /\ (\/ new.registers # old.registers
                     \/ new.current_data # old.current_data
                     \/ new.power_state # old.power_state
                     \/ new.sample_count # old.sample_count)
                        => DeviceLockOf(mutex, i) = t
                 /\ (\/ new.fifo.head # old.fifo.head
                     \/ new.fifo.tail # old.fifo.tail
                     \/ new.fifo.count # old.fifo.count
                     \/ new.fifo.buffer # old.fifo.buffer)
                        => FifoLockOf(mutex, i) = t ]_vars

----------------------------------------------------------------------------
(* Shutdown: one control thread makes the lifecycle calls; cleanup is      *)
(* split at pthread_join, where it waits for the Sampler to leave its loop *)

MaxShutdownOps == 5

MaxShutdownTicks == 2

(* the thread that calls init and cleanup *)
Controllers == {1}

(* the Sampler tests g_simulator.running, finds it cleared and returns *)
background_simulation_thread_return ==
    /\ background_thread = "running"
    /\ ~running
    /\ background_thread' = "exited"
    /\ UNCHANGED << g_simulator_initialized, running, buses, mpu6050_devices,
                    last, ticks, budget, pc, mutex, trace >>

CleanupCall == Call("cleanup", -1, -1, -1, << >>, 0, << >>)

(* i2c_simulator_cleanup without g_simulator.running = false *)
cleanup_clear_running_KeepRunning(t) ==
    /\ pc[t].at = "idle"
    /\ budget > 0
    /\ budget' = budget - 1
    /\ IF ~g_simulator_initialized
       THEN ThreadReturns(t, CleanupCall)
       ELSE /\ At(t, "pthread_join")
            /\ UNCHANGED << last, ticks, trace >>
    /\ UNCHANGED << Lifecycle, buses, mpu6050_devices, mutex >>

(* i2c_simulator_cleanup up to pthread_join: the initialized test and      *)
(* g_simulator.running = false                                             *)
cleanup_clear_running(t) ==
    /\ pc[t].at = "idle"
    /\ budget > 0
    /\ budget' = budget - 1
    /\ IF ~g_simulator_initialized
       THEN /\ ThreadReturns(t, CleanupCall)
            /\ UNCHANGED running
       ELSE /\ running' = FALSE
            /\ At(t, "pthread_join")
            /\ UNCHANGED << last, ticks, trace >>
    /\ UNCHANGED << g_simulator_initialized, background_thread, buses,
                    mpu6050_devices, mutex >>

(* pthread_join returns once the Sampler has returned; the mutexes are     *)
(* destroyed and the initialized flag is cleared                           *)
cleanup_pthread_join(t) ==
    /\ pc[t].at = "pthread_join"
    /\ background_thread = "exited"
    /\ background_thread' = "joined"
    /\ mutex' = AllFree
    /\ g_simulator_initialized' = FALSE
    /\ ThreadReturns(t, CleanupCall)
    /\ UNCHANGED << running, buses, mpu6050_devices, budget >>

(* the process image before any call: zero-initialized statics *)
NotStarted ==
    /\ g_simulator_initialized = FALSE
    /\ running = FALSE
    /\ background_thread = "none"
    /\ buses = [b \in 0..(I2C_BUS_COUNT - 1) |-> ZeroBus]
    /\ mpu6050_devices = [i \in DevIdx |-> ZeroState]
    /\ last = NoCall
    /\ ticks = 0
    /\ pc = [t \in Callers |-> Idle]
    /\ mutex = AllFree

InitShutdown ==
    /\ NotStarted
    /\ budget = MaxShutdownOps
    /\ trace = NoTrace

(* the Sampler: one more iteration, or its return *)
Sampler ==
    \/ (ticks < MaxShutdownTicks /\ background_simulation_thread)
    \/ background_simulation_thread_return

NextShutdown ==
    \/ \E created \in BOOLEAN : i2c_simulator_init(created)
    \/ i2c_simulator_add_device(0, 104, "mpu6050")
    \/ mpu6050_fifo_enable(104, TRUE)
    \/ \E t \in Controllers : cleanup_clear_running(t)
    \/ \E t \in Controllers : cleanup_pthread_join(t)
    \/ Sampler

SpecShutdown == InitShutdown /\ [][NextShutdown]_vars

(* the Sampler thread keeps being scheduled, and a thread blocked in       *)
(* pthread_join is resumed once the joined thread has returned             *)
FairShutdown ==
    /\ SpecShutdown
    /\ WF_vars(Sampler)
    /\ \A t \in Controllers : WF_vars(cleanup_pthread_join(t))

(* C15: with the Sampler fairly scheduled, every cleanup() call on an      *)
(* initialized simulator returns; when it returns the running flag is      *)
(* cleared, the Sampler has seen it and returned and has been joined, and  *)
(* no mutex is held.                                                       *)
C15_CleanupReturns ==
    /\ \A t \in Controllers :
          (pc[t].at = "pthread_join") ~> (pc[t].at = "idle" /\ last = CleanupCall)
    /\ [][ \A t \in Controllers :
             (pc[t].at = "pthread_join" /\ pc'[t].at = "idle")
             => /\ ~running'
                /\ background_thread' = "joined"
                /\ mutex' = AllFree ]_vars

(* cleanup() has returned on a simulator that had a device with its FIFO   *)
(* enabled                                                                 *)
C15_Witness ==
    /\ last = CleanupCall
    /\ background_thread = "joined"
    /\ ~g_simulator_initialized
    /\ find_device(buses, 0, 104) # NULL
    /\ StateOf(104).fifo.enabled

(* C16: init() on an initialized simulator returns 0 and changes neither   *)
(* the flags, the Sampler, the bus tables nor any device state; cleanup()  *)
(* on an uninitialized simulator changes nothing; init() starts a Sampler  *)
(* only when none is alive; and between calls the Sampler is running       *)
(* exactly when the simulator is initialized.                              *)
C16_LifecycleIdempotent ==
    /\ [][ (budget' < budget /\ pc' = pc)
           => /\ (last'.op = "init" /\ g_simulator_initialized)
                    => /\ last'.ret = 0
                       /\ UNCHANGED << Lifecycle, buses, mpu6050_devices >>
              /\ (last'.op = "init" /\ background_thread' = "running")
                    => (\/ background_thread \in {"none", "joined"}
                        \/ UNCHANGED background_thread)
              /\ (last' = CleanupCall /\ ~g_simulator_initialized)
                    => UNCHANGED << Lifecycle, buses, mpu6050_devices >> ]_vars
    /\ [](AllIdle => (background_thread = "running" <=> g_simulator_initialized))

(* init() has returned on a simulator that was initialized and had a       *)
(* device registered, and the Sampler has run since                        *)
C16_Witness ==
    /\ last.op = "init"
    /\ last.ret = 0
    /\ g_simulator_initialized
    /\ find_device(buses, 0, 104) # NULL
    /\ ticks > 0

------------------------------------------------------------

----------------------------------------------------------------------------
(* Round trips: one caller writes and reads back the writable registers of *)
(* 0x68, with and without a 50 % bus-error mode.                           *)

MaxRoundTripOps == 4

(* the registers with a write handler, a plain one and the last index *)
RoundTripRegs ==
    {MPU6050_PWR_MGMT_1, MPU6050_USER_CTRL, MPU6050_FIFO_EN,
     MPU6050_ACCEL_CONFIG, 255}

(* 0x00, FIFO_EN | FIFO_RESET (also SLEEP), and a byte with bit 7 *)
RoundTripBytes == {0, 68, 165}

InitRoundTrip ==
    /\ Started
    /\ budget = MaxRoundTripOps
    /\ trace = NoTrace

NextRoundTrip ==
    \/ i2c_simulator_add_device(0, 104, "mpu6050")
    \/ mpu6050_simulator_set_error_mode(104, ERROR_BUS_ERROR, 50)
    \/ \E reg \in RoundTripRegs, v \in RoundTripBytes :
          \E rnd \in Draws(StateOf(104)) :
             i2c_simulator_write_byte(0, 104, reg, v, rnd)
    \/ \E reg \in RoundTripRegs :
          \E rnd \in Draws(StateOf(104)) :
             i2c_simulator_read_byte(0, 104, reg, rnd)

SpecRoundTrip == InitRoundTrip /\ [][NextRoundTrip]_vars

(* call w wrote a register that keeps what is written: writable, not       *)
(* FIFO_R_W, and not PWR_MGMT_1 with the DEVICE_RESET bit                  *)
PlainWrite(w) ==
    /\ w.op = "write_byte"
    /\ w.ret = 0
    /\ is_register_writable(w.reg)
    /\ w.reg # MPU6050_FIFO_R_W
    /\ ~(w.reg = MPU6050_PWR_MGMT_1 /\ HasBit(w.arg[1], 128))

(* C17: when a successful write_byte(reg, v) to a writable register other  *)
(* than FIFO_R_W (and, for PWR_MGMT_1, a v without the reset bit) is        *)
(* immediately followed by a read_byte(reg) of the same device on which no *)
(* bus error is injected, the read returns 0 and the byte v.               *)
C17_WriteReadRoundTrip ==
    [][ (/\ budget' < budget
         /\ PlainWrite(last)
         /\ last'.op = "read_byte"
         /\ last'.bus = last.bus
         /\ last'.address = last.address
         /\ last'.reg = last.reg
         /\ last'.ret # InjectedCode(ERROR_BUS_ERROR))
        => (last'.ret = 0 /\ last'.data = last.arg) ]_vars

(* USER_CTRL is read back as FIFO_EN | FIFO_RESET, which only a write has  *)
(* stored there, under the error mode and without a fault                  *)
C17_Witness ==
    /\ last.op = "read_byte"
    /\ last.reg = MPU6050_USER_CTRL
    /\ last.ret = 0
    /\ last.data = << 68 >>
    /\ StateOf(104).error_mode = ERROR_BUS_ERROR
    /\ StateOf(104).fifo.enabled

----------------------------------------------------------------------------
(* The not-found mode: 0x68 on bus 0 is configured with DEVICE_NOT_FOUND,  *)
(* read, written, reconfigured, removed and added again.  The history of   *)
(* calls is kept.                                                          *)

MaxNotFoundOps == 4

NotFoundReadRegs ==
    {MPU6050_WHO_AM_I, MPU6050_ACCEL_XOUT_H, MPU6050_FIFO_R_W, MPU6050_ACCEL_CONFIG}

InitNotFound ==
    /\ Started
    /\ budget = MaxNotFoundOps
    /\ trace = EmptyTrace

NextNotFound ==
    \/ i2c_simulator_add_device(0, 104, "mpu6050")
    \/ i2c_simulator_remove_device(0, 104)
    \/ \E p \in {50, 100} :
          mpu6050_simulator_set_error_mode(104, ERROR_DEVICE_NOT_FOUND, p)
    \/ mpu6050_simulator_inject_error(104)
    \/ mpu6050_set_power_state(104, POWER_ON)
    \/ \E rnd \in Draws(StateOf(104)) :
          i2c_simulator_write_byte(0, 104, MPU6050_PWR_MGMT_1, 128, rnd)
    \/ \E reg \in NotFoundReadRegs : \E rnd \in Draws(StateOf(104)) :
          i2c_simulator_read_byte(0, 104, reg, rnd)

SpecNotFound == InitNotFound /\ [][NextNotFound]_vars

(* call j of the history changed the error mode of the state machine of    *)
(* address, or created it anew                                             *)
ModeSetAt(j, address) ==
    /\ trace.calls[j].op \in {"set_error_mode", "inject_error", "add_device"}
    /\ trace.calls[j].ret = 0
    /\ trace.calls[j].address % MAX_I2C_DEVICES = address % MAX_I2C_DEVICES

(* C18: once set_error_mode(address, DEVICE_NOT_FOUND, 1.0) has succeeded, *)
(* every read_byte of that device, whatever the register, returns -ENODEV  *)
(* and no data, as long as no later call has set its error mode or created *)
(* the device anew.                                                        *)
C18_NotFoundModePersists ==
    \A i, n \in 1..Len(trace.calls) :
        (/\ i < n
         /\ trace.calls[i].op = "set_error_mode"
         /\ trace.calls[i].arg = << ERROR_DEVICE_NOT_FOUND, 100 >>
         /\ trace.calls[i].ret = 0
         /\ trace.calls[n].op = "read_byte"
         /\ trace.calls[n].address = trace.calls[i].address
         /\ \A j \in (i + 1)..(n - 1) : ~ModeSetAt(j, trace.calls[i].address))
        => (trace.calls[n].ret = -ENODEV /\ trace.calls[n].data = << >>)

(* under the mode a DEVICE_RESET write has failed, and a read of           *)
(* ACCEL_XOUT_H after it has returned the not-found code                   *)
C18_Witness ==
    /\ Len(trace.calls) = 4
    /\ trace.calls[2].op = "set_error_mode"
    /\ trace.calls[2].arg = << ERROR_DEVICE_NOT_FOUND, 100 >>
    /\ trace.calls[2].ret = 0
    /\ trace.calls[3].op = "write_byte"
    /\ trace.calls[3].ret = -ENODEV
    /\ last.op = "read_byte"
    /\ last.reg = MPU6050_ACCEL_XOUT_H
    /\ last.ret = -ENODEV

----------------------------------------------------------------------------
(* Error mode NONE with a probability stored: 0x68 on bus 0 is read and    *)
(* written, singly and in bursts, under NONE and under BUS_ERROR.          *)

MaxNoneOps == 4

InitNone ==
    /\ Started
    /\ budget = MaxNoneOps
    /\ trace = NoTrace

NextNone ==
    \/ i2c_simulator_add_device(0, 104, "mpu6050")
    \/ i2c_simulator_remove_device(0, 104)
    \/ \E p \in {0, 50, 100} :
          mpu6050_simulator_set_error_mode(104, ERROR_NONE, p)
    \/ mpu6050_simulator_set_error_mode(104, ERROR_BUS_ERROR, 100)
    \/ \E reg \in {MPU6050_WHO_AM_I, MPU6050_ACCEL_XOUT_H, MPU6050_FIFO_R_W} :
          \E rnd \in Draws(StateOf(104)) :
             i2c_simulator_read_byte(0, 104, reg, rnd)
    \/ \E w \in {<< MPU6050_ACCEL_CONFIG, 165 >>, << MPU6050_PWR_MGMT_1, 128 >>,
                 << MPU6050_FIFO_R_W, 165 >>, << MPU6050_WHO_AM_I, 165 >>} :
          \E rnd \in Draws(StateOf(104)) :
             i2c_simulator_write_byte(0, 104, w[1], w[2], rnd)
    \/ \E rnds \in BurstDraws(StateOf(104), 3) :
          i2c_simulator_read_burst(0, 104, MPU6050_FIFO_COUNTH, 3, rnds)
    \/ \E rnds \in BurstDraws(StateOf(104), 2) :
          i2c_simulator_write_burst(0, 104, MPU6050_ACCEL_CONFIG, << 1, 2 >>, rnds)

SpecNone == InitNone /\ [][NextNone]_vars

(* the registers a write_byte or write_burst call writes *)
WrittenRegs(call) ==
    IF call.op = "write_byte" THEN {call.reg}
    ELSE {(call.reg + k) % UINT8_MOD : k \in 0..(Len(call.arg) - 1)}

(* C19: while the error mode of a present, initialized device is NONE,     *)
(* whatever error probability is stored, every read_byte and read_burst of *)
(* it returns 0 with the bytes asked for, and every write_byte and         *)
(* write_burst to writable registers returns 0.                            *)
C19_NoneNeverInjects ==
    [][ (/\ budget' < budget
         /\ last'.op \in BusTransactions
         /\ find_device(buses, last'.bus, last'.address) # NULL
         /\ StateOf(last'.address).initialized
         /\ StateOf(last'.address).error_mode = ERROR_NONE)
        => /\ last'.op = "read_byte"
                => (last'.ret = 0 /\ Len(last'.data) = 1)
           /\ last'.op = "read_burst"
                => (last'.ret = 0 /\ Len(last'.data) = last'.arg[1])
           /\ (/\ last'.op \in {"write_byte", "write_burst"}
               /\ \A reg \in WrittenRegs(last') : is_register_writable(reg))
                => last'.ret = 0 ]_vars

(* a burst read has succeeded under NONE with probability 1.0 stored *)
C19_Witness ==
    /\ last.op = "read_burst"
    /\ last.ret = 0
    /\ Len(last.data) = 3
    /\ StateOf(104).initialized
    /\ StateOf(104).error_mode = ERROR_NONE
    /\ StateOf(104).error_probability = 100

----------------------------------------------------------------------------
(* Corrupt data: 0x68 on bus 0 has its FIFO enabled and filled, is         *)
(* configured with CORRUPT_DATA and read at ACCEL_XOUT_H and FIFO_R_W.     *)

MaxCorruptOps == 5

CorruptReadRegs == {MPU6050_ACCEL_XOUT_H, MPU6050_FIFO_R_W}

InitCorrupt ==
    /\ Started
    /\ budget = MaxCorruptOps
    /\ trace = NoTrace

NextCorrupt ==
    \/ i2c_simulator_add_device(0, 104, "mpu6050")
    \/ mpu6050_fifo_enable(104, TRUE)
    \/ mpu6050_set_power_state(104, POWER_ON)
    \/ \E p \in {50, 100} :
          mpu6050_simulator_set_error_mode(104, ERROR_CORRUPT_DATA, p)
    \/ \E rnd \in Draws(StateOf(104)) :
          i2c_simulator_write_byte(0, 104, MPU6050_FIFO_R_W, 165, rnd)
    \/ \E reg \in CorruptReadRegs : \E rnd \in Draws(StateOf(104)) :
          i2c_simulator_read_byte(0, 104, reg, rnd)

SpecCorrupt == InitCorrupt /\ [][NextCorrupt]_vars

(* C20: in every state where the device is in mode CORRUPT_DATA, a read of *)
(* ACCEL_XOUT_H or FIFO_R_W on which the fault is drawn returns 0 with the *)
(* substituted byte and leaves every device state as it was: no sample is  *)
(* generated or counted, nothing is appended to or popped from the FIFO;   *)
(* and a read_byte made under probability 1.0, where the fault is always   *)
(* drawn, returns 0 with one byte and changes no device state.             *)
C20_CorruptReadHasNoEffect ==
    /\ [](\A reg \in CorruptReadRegs : \A rnd \in Draws(StateOf(104)) :
            (/\ StateOf(104).initialized
             /\ StateOf(104).error_mode = ERROR_CORRUPT_DATA
             /\ should_inject_error(StateOf(104).error_probability, rnd.inject))
            => mpu6050_read_register(mpu6050_devices, 104, reg, rnd)
                  = Result(mpu6050_devices, 0, rnd.byte))
    /\ [][ (/\ budget' < budget
            /\ last'.op = "read_byte"
            /\ find_device(buses, last'.bus, last'.address) # NULL
            /\ StateOf(last'.address).initialized
            /\ StateOf(last'.address).error_mode = ERROR_CORRUPT_DATA
            /\ StateOf(last'.address).error_probability = 100)
           => /\ last'.ret = 0
              /\ Len(last'.data) = 1
              /\ mpu6050_devices' = mpu6050_devices ]_vars

(* FIFO_R_W has been read under CORRUPT_DATA at probability 1.0 while the  *)
(* enabled FIFO held a byte, which is still there                          *)
C20_Witness ==
    /\ last.op = "read_byte"
    /\ last.reg = MPU6050_FIFO_R_W
    /\ last.ret = 0
    /\ StateOf(104).error_mode = ERROR_CORRUPT_DATA
    /\ StateOf(104).error_probability = 100
    /\ StateOf(104).fifo.enabled
    /\ StateOf(104).fifo.count = 1


(***************************************************************************)
(* Concurrent transactions on one bus (SpecSerial): two callers issue      *)
(* read_byte(0, 0x68, WHO_AM_I) and write_byte(0, 0x68, ACCEL_CONFIG, v)   *)
(* the way concurrent_read_thread and concurrent_write_thread do, one      *)
(* step per lock operation.                                                *)
(***************************************************************************)
MaxSerialOps == 4

(* the scale ranges concurrent_write_thread cycles through, (i % 4) << 3,  *)
(* without the reset value 0 of the register                               *)
SerialBytes == {8, 24}

(* the request a caller carries: NoData for read_byte of WHO_AM_I, else    *)
(* the byte written to ACCEL_CONFIG                                        *)
SerialCall(data, ret, out) ==
    IF data = NoData
    THEN Call("read_byte", 0, 104, MPU6050_WHO_AM_I, << >>, ret, out)
    ELSE Call("write_byte", 0, 104, MPU6050_ACCEL_CONFIG, << data >>, ret, << >>)

transaction_acquire_bus_lock_NoWait(t, data) ==
    /\ pc[t].at = "idle"
    /\ budget > 0
    /\ g_simulator_initialized
    /\ mutex' = [mutex EXCEPT !.bus = t]
    /\ budget' = budget - 1
    /\ pc' = [pc EXCEPT ![t] = [at |-> "transaction_find_device", data |-> data]]
    /\ UNCHANGED << Lifecycle, buses, mpu6050_devices, last, ticks, trace >>

(* i2c_simulator_read_byte / i2c_simulator_write_byte up to                *)
(* acquire_bus_lock(0): the caller waits until buses[0].bus_mutex is free  *)
transaction_acquire_bus_lock(t, data) ==
    /\ pc[t].at = "idle"
    /\ budget > 0
    /\ g_simulator_initialized
    /\ mutex.bus = 0
    /\ mutex' = [mutex EXCEPT !.bus = t]
    /\ budget' = budget - 1
    /\ pc' = [pc EXCEPT ![t] = [at |-> "transaction_find_device", data |-> data]]
    /\ UNCHANGED << Lifecycle, buses, mpu6050_devices, last, ticks, trace >>

(* find_device under the bus lock; -ENODEV when the device is not found *)
transaction_find_device(t) ==
    /\ pc[t].at = "transaction_find_device"
    /\ IF find_device(buses, 0, 104) = NULL
       THEN /\ mutex' = [mutex EXCEPT !.bus = 0]
            /\ ThreadReturns(t, SerialCall(pc[t].data, -ENODEV, << >>))
            /\ UNCHANGED << Lifecycle, buses, mpu6050_devices, budget >>
       ELSE /\ At(t, "transaction_register_access")
            /\ UNCHANGED << Lifecycle, buses, mpu6050_devices, last, ticks,
                            budget, mutex, trace >>

(* device->read_register or device->write_register, then                   *)
(* release_bus_lock(0) and the return of the result                        *)
transaction_register_access(t, rnd) ==
    LET slot == find_device(buses, 0, 104)
        data == pc[t].data
        r == IF ~Usable(SlotOf(0, slot))
             THEN Result(mpu6050_devices, -EIO, NoData)
             ELSE IF data = NoData
             THEN mpu6050_read_register(mpu6050_devices,
                      SlotOf(0, slot).device_data, MPU6050_WHO_AM_I, rnd)
             ELSE mpu6050_write_register(mpu6050_devices,
                      SlotOf(0, slot).device_data, MPU6050_ACCEL_CONFIG, data, rnd)
    IN
    /\ pc[t].at = "transaction_register_access"
    /\ mpu6050_devices' = r.devs
    /\ mutex' = [mutex EXCEPT !.bus = 0]
    /\ ThreadReturns(t, SerialCall(data, r.ret, AsSeq(r.data)))
    /\ UNCHANGED << Lifecycle, buses, budget >>

InitSerial ==
    /\ Started
    /\ budget = MaxSerialOps
    /\ trace = NoTrace

NextSerial ==
    \/ i2c_simulator_add_device(0, 104, "mpu6050")
    \/ \E t \in Callers :
          \/ \E data \in SerialBytes \cup {NoData} :
                transaction_acquire_bus_lock(t, data)
          \/ transaction_find_device(t)
          \/ \E rnd \in Draws(StateOf(104)) : transaction_register_access(t, rnd)

SpecSerial == InitSerial /\ [][NextSerial]_vars

(* a caller returns from the register access of its transaction *)
TransactionReturns ==
    \E t \in Callers :
        pc[t].at = "transaction_register_access" /\ pc'[t].at = "idle"

AccelConfig == RegGet(StateOf(104).registers, MPU6050_ACCEL_CONFIG)

(* C21: with error mode NONE, concurrent read_byte(WHO_AM_I) and           *)
(* write_byte(ACCEL_CONFIG, v) on one present device are serialized by the *)
(* bus lock (never two callers between acquire and release), every such    *)
(* call returns 0, every read returns 0x68, and ACCEL_CONFIG holds the     *)
(* value of the write that returned, hence one of the written values from  *)
(* the first completed write on.                                           *)
C21_SerializedTransactions ==
    /\ [](\A t \in Callers : \A u \in Callers \ {t} :
              pc[t].at = "idle" \/ pc[u].at = "idle")
    /\ [][TransactionReturns =>
             /\ last'.ret = 0
             /\ last'.op = "read_byte" => last'.data = << MPU6050_WHO_AM_I_VALUE >>
             /\ last'.op = "write_byte" =>
                   /\ last'.arg[1] \in SerialBytes
                   /\ AccelConfig' = last'.arg[1]]_vars
    /\ [][(AccelConfig \in SerialBytes) => (AccelConfig' \in SerialBytes)]_vars

(* a read returned 0x68 after a write of 24 completed, while the other     *)
(* caller holds the bus lock for a write of 8                              *)
C21_Witness ==
    /\ last.op = "read_byte" /\ last.ret = 0
    /\ last.data = << MPU6050_WHO_AM_I_VALUE >>
    /\ AccelConfig = 24
    /\ \E t \in Callers :
          /\ mutex.bus = t
          /\ pc[t] = [at |-> "transaction_register_access", data |-> 8]


(***************************************************************************)
(* Power state set and read back (SpecPower)                               *)
(***************************************************************************)
MaxPowerOps == 4

(* the arguments of mpu6050_set_power_state: the four power states,        *)
(* POWER_COUNT, and values on both sides of the enumeration                *)
PowerArgs == (-1)..(POWER_COUNT + 1)

PowerStates == {POWER_OFF, POWER_SLEEP, POWER_CYCLE, POWER_ON}

InitPower ==
    /\ Started
    /\ budget = MaxPowerOps
    /\ trace = EmptyTrace

NextPower ==
    \/ i2c_simulator_add_device(0, 104, "mpu6050")
    \/ \E power_state \in PowerArgs : mpu6050_set_power_state(104, power_state)
    \/ mpu6050_get_power_state(104)

SpecPower == InitPower /\ [][NextPower]_vars

(* C22: on an initialized device mpu6050_set_power_state(address, s)       *)
(* returns 0 for each of the four power states and the get_power_state     *)
(* that follows it returns s; with any other value it fails and leaves     *)
(* the power state (and the rest of the device) unchanged.                 *)
C22_PowerStateRoundTrip ==
    /\ [][(last'.op = "set_power_state" /\ StateOf(104).initialized) =>
             IF last'.arg[1] \in PowerStates
             THEN last'.ret = 0 /\ StateOf(104)'.power_state = last'.arg[1]
             ELSE last'.ret < 0 /\ StateOf(104)' = StateOf(104)]_vars
    /\ [](\A j \in 2..Len(trace.calls) :
             (/\ trace.calls[j].op = "get_power_state"
              /\ trace.calls[j - 1].op = "set_power_state"
              /\ trace.calls[j - 1].ret = 0)
             => trace.calls[j].ret = trace.calls[j - 1].arg[1])

(* CYCLE set and read back, after a set with POWER_COUNT failed *)
C22_Witness ==
    /\ Len(trace.calls) = 4
    /\ trace.calls[2] = Call("set_power_state", -1, 104, -1, << POWER_COUNT >>,
                             -EINVAL, << >>)
    /\ trace.calls[3] = Call("set_power_state", -1, 104, -1, << POWER_CYCLE >>,
                             0, << >>)
    /\ trace.calls[4].op = "get_power_state"
    /\ trace.calls[4].ret = POWER_CYCLE


(***************************************************************************)
(* Bus ids outside [0, I2C_BUS_COUNT) (SpecBusId)                          *)
(***************************************************************************)
MaxBusIdOps == 4

(* bus 0 and the ids next to both ends of the valid range *)
BusIds == {-1, 0, I2C_BUS_COUNT}

InitBusId ==
    /\ Started
    /\ budget = MaxBusIdOps
    /\ trace = NoTrace

NextBusId ==
    \E bus \in BusIds :
        \/ i2c_simulator_add_device(bus, 104, "mpu6050")
        \/ i2c_simulator_remove_device(bus, 104)
        \/ \E rnd \in Draws(StateOf(104)) :
              \/ i2c_simulator_read_byte(bus, 104, MPU6050_WHO_AM_I, rnd)
              \/ i2c_simulator_write_byte(bus, 104, MPU6050_ACCEL_CONFIG, 8, rnd)
        \/ \E rnds \in BurstDraws(StateOf(104), 2) :
              \/ i2c_simulator_read_burst(bus, 104, MPU6050_ACCEL_CONFIG, 2, rnds)
              \/ i2c_simulator_write_burst(bus, 104, MPU6050_GYRO_CONFIG,
                                           << 8, 16 >>, rnds)

SpecBusId == InitBusId /\ [][NextBusId]_vars

(* C23: read_byte, write_byte, read_burst, write_burst, add_device and     *)
(* remove_device called with a bus id outside [0, I2C_BUS_COUNT) return    *)
(* -EINVAL, not the not-found code, and change no bus or device state.     *)
C23_InvalidBusIsInvalidArgument ==
    [][(last'.bus < 0 \/ last'.bus >= I2C_BUS_COUNT) =>
          /\ last'.ret = -EINVAL
          /\ UNCHANGED << buses, mpu6050_devices >>]_vars


(***************************************************************************)
(* The sample trigger and the power state (SpecSample): register reads of  *)
(* one device in every power state, with the FIFO enabled or not           *)
(***************************************************************************)
MaxSampleOps == 5

(* sensor-output registers other than the trigger ACCEL_XOUT_H *)
OtherSensorRegs == {MPU6050_ACCEL_XOUT_L, MPU6050_TEMP_OUT_H, MPU6050_GYRO_ZOUT_L}

SampleReadRegs ==
    {MPU6050_ACCEL_XOUT_H, MPU6050_FIFO_R_W, MPU6050_WHO_AM_I} \cup OtherSensorRegs

(* one sample frame: the 14 registers ACCEL_XOUT_H .. GYRO_ZOUT_L *)
FrameLen == MPU6050_GYRO_ZOUT_L - MPU6050_ACCEL_XOUT_H + 1

InitSample ==
    /\ Started
    /\ budget = MaxSampleOps
    /\ trace = NoTrace

NextSample ==
    \/ i2c_simulator_add_device(0, 104, "mpu6050")
    \/ \E power_state \in PowerStates : mpu6050_set_power_state(104, power_state)
    \/ mpu6050_simulator_set_pattern(104, PATTERN_SINE_WAVE)
    \/ mpu6050_fifo_enable(104, TRUE)
    \/ \E rnd \in Draws(StateOf(104)) :
          \/ i2c_simulator_write_byte(0, 104, MPU6050_FIFO_R_W, 165, rnd)
          \/ \E reg \in SampleReadRegs : i2c_simulator_read_byte(0, 104, reg, rnd)
    \/ \E rnds \in BurstDraws(StateOf(104), FrameLen) :
          i2c_simulator_read_burst(0, 104, MPU6050_ACCEL_XOUT_H, FrameLen, rnds)

SpecSample == InitSample /\ [][NextSample]_vars

(* the call recorded by this step is a successful read of the device *)
ReadStep == last'.op \in {"read_byte", "read_burst"} /\ last'.ret = 0

FrameBurstStep ==
    /\ ReadStep /\ last'.op = "read_burst"
    /\ last'.reg = MPU6050_ACCEL_XOUT_H /\ last'.arg = << FrameLen >>

Awake(state) == state.power_state \in {POWER_ON, POWER_CYCLE}

(* C24: in power state ON or CYCLE with no fault injected, a read_burst of *)
(* 14 bytes from ACCEL_XOUT_H advances the sample counter by exactly 1     *)
(* and returns the big-endian fields of the one sample that is current     *)
(* afterwards; a read of any other sensor-output register changes neither  *)
(* the sample nor the counter.                                             *)
C24_OneSamplePerBurst ==
    /\ [][(FrameBurstStep /\ Awake(StateOf(104))) =>
             /\ StateOf(104)'.sample_count = StateOf(104).sample_count + 1
             /\ last'.data = FrameBytes(StateOf(104)'.current_data)]_vars
    /\ [][(ReadStep /\ last'.op = "read_byte" /\ last'.reg \in OtherSensorRegs) =>
             /\ StateOf(104)'.sample_count = StateOf(104).sample_count
             /\ StateOf(104)'.current_data = StateOf(104).current_data]_vars

(* a second frame burst in state ON with the sine pattern returned the     *)
(* frame of sample 2, which differs from the reset sample                  *)
C24_Witness ==
    /\ last.op = "read_burst" /\ last.ret = 0 /\ Len(last.data) = FrameLen
    /\ StateOf(104).power_state = POWER_ON
    /\ StateOf(104).pattern = PATTERN_SINE_WAVE
    /\ StateOf(104).sample_count = 2
    /\ last.data = FrameBytes(StateOf(104).current_data)
    /\ StateOf(104).current_data # ZeroData


Asleep(state) == state.initialized /\ state.power_state \in {POWER_OFF, POWER_SLEEP}

(* the registers a successful read returned by this step has read *)
RegsRead ==
    IF last'.op = "read_burst"
    THEN {(last'.reg + k) % UINT8_MOD : k \in 0..(last'.arg[1] - 1)}
    ELSE {last'.reg}

(* C25 as stated: while the power state is OFF or SLEEP no register read   *)
(* changes the current sample, the sample counter or the FIFO.             *)
C25_NoReadChangesAnythingAsleep ==
    [][(ReadStep /\ Asleep(StateOf(104))) =>
          /\ StateOf(104)'.current_data = StateOf(104).current_data
          /\ StateOf(104)'.sample_count = StateOf(104).sample_count
          /\ StateOf(104)'.fifo = StateOf(104).fifo]_vars

(* C25 amended: while the power state is OFF or SLEEP no register read     *)
(* changes the current sample or the sample counter, a read of sensor      *)
(* output registers returns the bytes of that unchanged sample (so         *)
(* successive reads return the same bytes), and the FIFO is changed only   *)
(* by a read of FIFO_R_W, which pops a byte in every power state.          *)
C25_FrozenSampleAsleep ==
    [][(ReadStep /\ Asleep(StateOf(104))) =>
          /\ StateOf(104)'.current_data = StateOf(104).current_data
          /\ StateOf(104)'.sample_count = StateOf(104).sample_count
          /\ MPU6050_FIFO_R_W \notin RegsRead =>
                StateOf(104)'.fifo = StateOf(104).fifo
          /\ FrameBurstStep => last'.data = FrameBytes(StateOf(104).current_data)
          /\ (last'.op = "read_byte" /\ last'.reg = MPU6050_ACCEL_XOUT_H) =>
                last'.data = << HighByte(StateOf(104).current_data.accel_x) >>]_vars

(* a frame burst in SLEEP returned the frame of sample 1, generated before *)
(* the device was put to sleep                                             *)
C25_Witness ==
    /\ last.op = "read_burst" /\ last.ret = 0
    /\ StateOf(104).power_state = POWER_SLEEP
    /\ StateOf(104).sample_count = 1
    /\ StateOf(104).current_data # ZeroData
    /\ last.data = FrameBytes(StateOf(104).current_data)


(* C26: the FIFO grows only through Sampler ticks and writes of FIFO_R_W,  *)
(* the sample counter advances only through Sampler ticks and reads that   *)
(* trigger on ACCEL_XOUT_H, and a read of ACCEL_XOUT_H or of any register  *)
(* other than FIFO_R_W changes no FIFO field. (No step of SpecSample is a  *)
(* Sampler tick: the loop of background_simulation_thread stores nothing.) *)
C26_ReadsLeaveFifoAlone ==
    /\ [][StateOf(104)'.fifo.count > StateOf(104).fifo.count =>
             last'.op = "write_byte" /\ last'.reg = MPU6050_FIFO_R_W]_vars
    /\ [][StateOf(104)'.sample_count > StateOf(104).sample_count =>
             ReadStep /\ MPU6050_ACCEL_XOUT_H \in RegsRead]_vars
    /\ [][(ReadStep /\ MPU6050_FIFO_R_W \notin RegsRead) =>
             StateOf(104)'.fifo = StateOf(104).fifo]_vars


(***************************************************************************)
(* The FIFO ring buffer near its capacity (SpecFifo): one device whose     *)
(* FIFO was enabled and then filled and drained through FIFO_R_W, so that  *)
(* the four calls of a behaviour reach the full buffer and the wrap of     *)
(* head and tail.                                                          *)
(***************************************************************************)
MaxFifoOps == 4

(* the FIFO after mpu6050_fifo_enable(address, true), pushes writes of     *)
(* FIFO_R_W (the k-th writes the byte k % 256) and pops reads of it, for   *)
(* pops <= pushes <= FIFO_BUFFER_SIZE                                      *)
FifoAfter(pushes, pops) ==
    [buffer |-> [k \in 1..pushes |-> k % 256],
     head |-> pushes % FIFO_BUFFER_SIZE,
     tail |-> pops % FIFO_BUFFER_SIZE,
     count |-> pushes - pops,
     enabled |-> TRUE, overflow |-> FALSE]

(* the fillings a behaviour starts from: empty, two bytes below full, and  *)
(* two bytes left with head at the last index of the buffer                *)
FifoFillings ==
    { << 0, 0 >>, << FIFO_BUFFER_SIZE - 2, 0 >>,
      << FIFO_BUFFER_SIZE - 1, FIFO_BUFFER_SIZE - 3 >> }

(* the simulator after init, add_device(0, 0x68, "mpu6050"),               *)
(* fifo_enable(0x68, true) and that traffic on FIFO_R_W                    *)
InitFifo ==
    /\ g_simulator_initialized = TRUE
    /\ running = TRUE
    /\ background_thread = "running"
    /\ buses = [b \in 0..(I2C_BUS_COUNT - 1) |->
                  IF b = 0
                  THEN [devices |-> << [address |-> 104, present |-> TRUE,
                                        device_data |-> 104, bound |-> TRUE] >>,
                        device_count |-> 1]
                  ELSE ZeroBus]
    /\ \E f \in FifoFillings :
          mpu6050_devices =
             [i \in DevIdx |->
                 IF i = 104
                 THEN [CreatedState EXCEPT
                         !.fifo = FifoAfter(f[1], f[2]),
                         !.registers = RegSet(@, MPU6050_USER_CTRL, 64)]
                 ELSE ZeroState]
    /\ last = NoCall
    /\ ticks = 0
    /\ pc = [t \in Callers |-> Idle]
    /\ mutex = AllFree
    /\ budget = MaxFifoOps
    /\ trace = NoTrace

NextFifo ==
    \/ \E rnd \in Draws(StateOf(104)) :
          \/ i2c_simulator_write_byte(0, 104, MPU6050_FIFO_R_W, 165, rnd)
          \/ i2c_simulator_write_byte(0, 104, MPU6050_USER_CTRL, 68, rnd)
          \/ \E reg \in {MPU6050_FIFO_R_W, MPU6050_ACCEL_XOUT_H} :
                i2c_simulator_read_byte(0, 104, reg, rnd)
    \/ mpu6050_fifo_read(104, 3)
    \/ mpu6050_set_power_state(104, POWER_ON)
    \/ Call_mpu6050_fifo_reset(104)
    \/ mpu6050_fifo_enable(104, TRUE)

SpecFifo == InitFifo /\ [][NextFifo]_vars

Fifo == StateOf(104).fifo

(* C27 as stated: in every reachable FIFO state, the completely full one   *)
(* included, count = (head - tail) mod capacity, with head and tail in     *)
(* [0, capacity).                                                          *)
C27_CountIsHeadMinusTail ==
    /\ Fifo.head \in 0..(FIFO_BUFFER_SIZE - 1)
    /\ Fifo.tail \in 0..(FIFO_BUFFER_SIZE - 1)
    /\ Fifo.count = (Fifo.head - Fifo.tail + FIFO_BUFFER_SIZE) % FIFO_BUFFER_SIZE

(* C27 amended: head and tail are in [0, capacity) and count is congruent  *)
(* to head - tail modulo capacity: count = (head - tail) mod capacity      *)
(* whenever count < capacity, and the completely full FIFO has             *)
(* count = capacity with head = tail.                                      *)
C27_CountCongruentToHeadMinusTail ==
    /\ Fifo.head \in 0..(FIFO_BUFFER_SIZE - 1)
    /\ Fifo.tail \in 0..(FIFO_BUFFER_SIZE - 1)
    /\ Fifo.count % FIFO_BUFFER_SIZE =
          (Fifo.head - Fifo.tail + FIFO_BUFFER_SIZE) % FIFO_BUFFER_SIZE

(* the FIFO is completely full: the write of FIFO_R_W that took the last   *)
(* free byte left head on tail                                             *)
C27_Witness ==
    /\ Fifo.count = FIFO_BUFFER_SIZE
    /\ Fifo.head = Fifo.tail
    /\ ~Fifo.overflow
    /\ last.op = "write_byte" /\ last.reg = MPU6050_FIFO_R_W /\ last.ret = 0


(* the bytes a FIFO holds, oldest first *)
Contents(fifo) ==
    [k \in 1..fifo.count |->
        ArrGet(fifo.buffer, (fifo.tail + k - 1) % FIFO_BUFFER_SIZE, 0)]

(* this step is a write of FIFO_R_W that reached the push *)
FifoWriteStep ==
    last'.op = "write_byte" /\ last'.reg = MPU6050_FIFO_R_W /\ last'.ret = 0

(* this step is an ACCEL_XOUT_H read that pushes the frame of its sample *)
FramePushStep ==
    /\ last'.op = "read_byte" /\ last'.reg = MPU6050_ACCEL_XOUT_H /\ last'.ret = 0
    /\ Awake(StateOf(104)) /\ Fifo.enabled

(* the bytes of the frame pushed by this step that find room *)
FrameAccepted ==
    SubSeq(FrameBytes(StateOf(104)'.current_data), 1,
           IF FIFO_BUFFER_SIZE - Fifo.count < FrameLen
           THEN FIFO_BUFFER_SIZE - Fifo.count ELSE FrameLen)

(* C28: a push (a FIFO_R_W write, or a byte of a sample frame) onto a FIFO *)
(* whose count equals the capacity sets the overflow flag and leaves       *)
(* count, head, tail and every stored byte unchanged; a frame that meets   *)
(* the full FIFO part-way stores the bytes that fit and drops the rest.    *)
C28_PushOnFullOnlyLatches ==
    /\ [][((FifoWriteStep \/ FramePushStep) /\ Fifo.count = FIFO_BUFFER_SIZE) =>
             Fifo' = [Fifo EXCEPT !.overflow = TRUE]]_vars
    /\ [][(FramePushStep /\ Fifo.count + FrameLen > FIFO_BUFFER_SIZE) =>
             /\ Fifo'.overflow
             /\ Fifo'.count = FIFO_BUFFER_SIZE
             /\ Fifo'.tail = Fifo.tail
             /\ Contents(Fifo') = Contents(Fifo) \o FrameAccepted]_vars

(* a write of FIFO_R_W met the full FIFO and latched the overflow *)
C28_Witness ==
    /\ last.op = "write_byte" /\ last.reg = MPU6050_FIFO_R_W /\ last.ret = 0
    /\ Fifo.count = FIFO_BUFFER_SIZE
    /\ Fifo.overflow
    /\ Contents(Fifo) = Contents(FifoAfter(FIFO_BUFFER_SIZE - 2, 0)) \o << 165, 165 >>


(* this step pops through a read of FIFO_R_W or through mpu6050_fifo_read *)
FifoPopStep ==
    \/ last'.op = "read_byte" /\ last'.reg = MPU6050_FIFO_R_W /\ last'.ret = 0
    \/ last'.op = "fifo_read" /\ last'.ret >= 0

(* the bytes the pop of this step handed to its caller *)
Popped == last'.data

(* C29: the FIFO keeps the order of its bytes. Between resets every step   *)
(* takes a prefix of the stored bytes and hands exactly those bytes to its *)
(* caller (a read of FIFO_R_W one byte, fifo_read as many as asked for and *)
(* stored), or appends the accepted bytes of a push behind the stored      *)
(* ones, so the bytes popped are a prefix of the bytes accepted, none lost *)
(* or repeated. A read of FIFO_R_W on an empty FIFO returns 0 and          *)
(* fifo_read returns 0 bytes, without error and leaving the FIFO as it is. *)
C29_FifoOrder ==
    /\ [][(FifoPopStep /\ Fifo.count > 0) =>
             /\ Len(Popped) = (IF last'.op = "fifo_read" /\ last'.arg[1] < Fifo.count
                               THEN last'.arg[1]
                               ELSE IF last'.op = "fifo_read" THEN Fifo.count ELSE 1)
             /\ last'.op = "fifo_read" => last'.ret = Len(Popped)
             /\ Contents(Fifo) = Popped \o Contents(Fifo')
             /\ Fifo'.head = Fifo.head]_vars
    /\ [][(FifoPopStep /\ Fifo.count = 0) =>
             /\ Fifo' = Fifo
             /\ last'.ret = 0
             /\ Popped = (IF last'.op = "fifo_read" THEN << >> ELSE << 0 >>)]_vars
    /\ [][(FifoWriteStep /\ Fifo.count < FIFO_BUFFER_SIZE) =>
             Contents(Fifo') = Append(Contents(Fifo), last'.arg[1])]_vars
    /\ [][FramePushStep => Contents(Fifo') = Contents(Fifo) \o FrameAccepted]_vars
    /\ [][last'.op = "set_power_state" => Fifo' = Fifo]_vars

(* fifo_read(3) took the three stored bytes in the order they were        *)
(* written, the last from the last index of the buffer, where head and     *)
(* then tail wrapped to index 0                                            *)
C29_Witness ==
    /\ last.op = "fifo_read" /\ last.arg = << 3 >> /\ last.ret = 3
    /\ last.data = << (FIFO_BUFFER_SIZE - 2) % 256, (FIFO_BUFFER_SIZE - 1) % 256, 165 >>
    /\ Fifo.tail = 0
    /\ Fifo.count = 0


(***************************************************************************)
(* The overflow latch (SpecLatch): two devices on bus 0, at the addresses  *)
(* 0x00 and 0x68, each with its FIFO enabled and filled to the last byte   *)
(* through FIFO_R_W, so that the next push latches the overflow            *)
(***************************************************************************)
MaxLatchOps == 3

LatchAddresses == {0, 104}

InitLatch ==
    /\ g_simulator_initialized = TRUE
    /\ running = TRUE
    /\ background_thread = "running"
    /\ buses = [b \in 0..(I2C_BUS_COUNT - 1) |->
                  IF b = 0
                  THEN [devices |-> << [address |-> 0, present |-> TRUE,
                                        device_data |-> 0, bound |-> TRUE],
                                       [address |-> 104, present |-> TRUE,
                                        device_data |-> 104, bound |-> TRUE] >>,
                        device_count |-> 2]
                  ELSE ZeroBus]
    /\ mpu6050_devices =
          [i \in DevIdx |->
              IF i \in LatchAddresses
              THEN [CreatedState EXCEPT
                      !.fifo = FifoAfter(FIFO_BUFFER_SIZE, 0),
                      !.registers = RegSet(@, MPU6050_USER_CTRL, 64)]
              ELSE ZeroState]
    /\ last = NoCall
    /\ ticks = 0
    /\ pc = [t \in Callers |-> Idle]
    /\ mutex = AllFree
    /\ budget = MaxLatchOps
    /\ trace = NoTrace

NextLatch ==
    \E address \in LatchAddresses :
        \/ \E rnd \in Draws(StateOf(address)) :
              \/ \E reg \in {MPU6050_FIFO_R_W, MPU6050_ACCEL_XOUT_H} :
                    i2c_simulator_read_byte(0, address, reg, rnd)
              \/ i2c_simulator_write_byte(0, address, MPU6050_FIFO_R_W, 165, rnd)
              \/ i2c_simulator_write_byte(0, address, MPU6050_USER_CTRL, 68, rnd)
              \/ i2c_simulator_write_byte(0, address, MPU6050_PWR_MGMT_1, 128, rnd)
        \/ mpu6050_set_power_state(address, POWER_ON)
        \/ Call_mpu6050_fifo_reset(address)
        \/ mpu6050_fifo_enable(address, TRUE)
        \/ i2c_simulator_remove_device(0, address)
        \/ i2c_simulator_add_device(0, address, "mpu6050")

SpecLatch == InitLatch /\ [][NextLatch]_vars

(* the call this step returned resets the FIFO of the device at address,   *)
(* enables it again or creates the device again                            *)
ClearsLatchOf(address) ==
    /\ last'.address = address
    /\ \/ last'.op = "fifo_reset"
       \/ last'.op = "fifo_enable" /\ last'.arg = << 1 >>
       \/ last'.op = "add_device"
       \/ /\ last'.op = "write_byte"
          /\ \/ last'.reg = MPU6050_USER_CTRL /\ HasBit(last'.arg[1], 4)
             \/ last'.reg = MPU6050_PWR_MGMT_1 /\ HasBit(last'.arg[1], 128)

(* C30: once the overflow flag of a FIFO is set it stays set through pops, *)
(* further pushes, register reads and power-state changes; it is cleared   *)
(* only by a FIFO reset of its device (fifo_reset, the USER_CTRL           *)
(* FIFO-reset bit, DEVICE_RESET), by enabling the FIFO again or by         *)
(* creating the device again.                                              *)
C30_OverflowLatched ==
    [][\A address \in LatchAddresses :
          (StateOf(address).fifo.overflow /\ ~StateOf(address)'.fifo.overflow)
          => ClearsLatchOf(address)]_vars


(***************************************************************************)
(* FIFO control through the registers (SpecFifoCtrl): writes of USER_CTRL  *)
(* and FIFO_EN on a device whose FIFO holds bytes, next to                 *)
(* mpu6050_fifo_enable                                                     *)
(***************************************************************************)
MaxFifoCtrlOps == 4

(* the values written: no bit, FIFO_RESET (0x04), FIFO_EN (0x40), both *)
CtrlBytes == {0, 4, 64, 68}

InitFifoCtrl ==
    /\ Started
    /\ budget = MaxFifoCtrlOps
    /\ trace = NoTrace

NextFifoCtrl ==
    \/ i2c_simulator_add_device(0, 104, "mpu6050")
    \/ \E enable \in BOOLEAN : mpu6050_fifo_enable(104, enable)
    \/ \E rnd \in Draws(StateOf(104)) :
          \/ i2c_simulator_write_byte(0, 104, MPU6050_FIFO_R_W, 165, rnd)
          \/ \E reg \in {MPU6050_USER_CTRL, MPU6050_FIFO_EN} : \E data \in CtrlBytes :
                i2c_simulator_write_byte(0, 104, reg, data, rnd)

SpecFifoCtrl == InitFifoCtrl /\ [][NextFifoCtrl]_vars

(* this step is a successful write_byte of reg on the device *)
WroteReg(reg) ==
    last'.op = "write_byte" /\ last'.reg = reg /\ last'.ret = 0

(* C31: a write_byte to USER_CTRL or FIFO_EN that sets the FIFO-enable bit *)
(* (0x40) leaves the FIFO as fifo_enable(true) would: enabled, with head,  *)
(* tail, count and overflow reset; a write that clears the bit switches    *)
(* the enabled flag off.                                                   *)
C31_EnableBitActsAsFifoEnable ==
    [][(WroteReg(MPU6050_USER_CTRL) \/ WroteReg(MPU6050_FIFO_EN)) =>
          IF HasBit(last'.arg[1], 64)
          THEN StateOf(104)'.fifo =
                  [ResetFifoFields(StateOf(104).fifo) EXCEPT !.enabled = TRUE]
          ELSE ~StateOf(104)'.fifo.enabled]_vars

(* C32: a write_byte to USER_CTRL with the FIFO-reset bit (0x04) set       *)
(* clears head, tail, count and overflow and leaves the enabled flag as it *)
(* was before the write. The flag is compared only for writes that do not  *)
(* set the FIFO-enable bit as well, such as the 0x04 the claim names.      *)
C32_ResetBitKeepsEnabled ==
    [][(WroteReg(MPU6050_USER_CTRL) /\ HasBit(last'.arg[1], 4)) =>
          LET fifo == StateOf(104)'.fifo
          IN  /\ fifo.head = 0 /\ fifo.tail = 0 /\ fifo.count = 0
              /\ ~fifo.overflow
              /\ ~HasBit(last'.arg[1], 64) =>
                    fifo.enabled = StateOf(104).fifo.enabled]_vars


(***************************************************************************)
(* The power state and PWR_MGMT_1 (SpecPowerReg): every byte written to    *)
(* the register, in every power state set_power_state can leave            *)
(***************************************************************************)
MaxPowerRegOps == 3

InitPowerReg ==
    /\ Started
    /\ budget = MaxPowerRegOps
    /\ trace = NoTrace

NextPowerReg ==
    \/ i2c_simulator_add_device(0, 104, "mpu6050")
    \/ \E power_state \in PowerStates : mpu6050_set_power_state(104, power_state)
    \/ \E rnd \in Draws(StateOf(104)) :
          \/ \E data \in 0..(UINT8_MOD - 1) :
                i2c_simulator_write_byte(0, 104, MPU6050_PWR_MGMT_1, data, rnd)
          \/ i2c_simulator_read_byte(0, 104, MPU6050_PWR_MGMT_1, rnd)

SpecPowerReg == InitPowerReg /\ [][NextPowerReg]_vars

(* the power state the bits of a PWR_MGMT_1 value stand for *)
PowerOfBits(value) ==
    IF HasBit(value, 64) THEN POWER_SLEEP
    ELSE IF HasBit(value, 32) THEN POWER_CYCLE
    ELSE POWER_ON

(* C33: after a successful write_byte(PWR_MGMT_1, v), for each of the 256  *)
(* values of v and whatever the power state was: SLEEP if bit 7 of v is    *)
(* set (the reset default), else SLEEP if bit 6 is set, else CYCLE if bit  *)
(* 5 is set, else ON.                                                      *)
C33_PowerStateFromBits ==
    [][WroteReg(MPU6050_PWR_MGMT_1) =>
          StateOf(104)'.power_state =
             (IF HasBit(last'.arg[1], 128) THEN POWER_SLEEP
              ELSE PowerOfBits(last'.arg[1]))]_vars

(* 0xA0, reset and CYCLE bits together, was written and left the device in *)
(* SLEEP with the reset value of the register                              *)
C33_Witness ==
    /\ last.op = "write_byte" /\ last.reg = MPU6050_PWR_MGMT_1
    /\ last.arg = << 160 >> /\ last.ret = 0
    /\ StateOf(104).power_state = POWER_SLEEP
    /\ RegGet(StateOf(104).registers, MPU6050_PWR_MGMT_1) = 64

(* C39: after any sequence of set_power_state calls and PWR_MGMT_1 writes  *)
(* the stored power state agrees with the PWR_MGMT_1 value read back:      *)
(* SLEEP or OFF exactly when the SLEEP bit (0x40) is set, CYCLE exactly    *)
(* when the SLEEP bit is clear and the CYCLE bit (0x20) is set, ON exactly *)
(* when both are clear.                                                    *)
C39_PowerStateAgreesWithRegister ==
    StateOf(104).initialized =>
        LET value == RegGet(StateOf(104).registers, MPU6050_PWR_MGMT_1)
            power_state == StateOf(104).power_state
        IN  /\ (power_state \in {POWER_SLEEP, POWER_OFF}) = HasBit(value, 64)
            /\ (power_state = POWER_CYCLE) = (~HasBit(value, 64) /\ HasBit(value, 32))
            /\ (power_state = POWER_ON) = (~HasBit(value, 64) /\ ~HasBit(value, 32))


(***************************************************************************)
(* Faults on writes and bursts (SpecBurst): single-byte and burst          *)
(* transactions under the error modes INTERMITTENT and BUS_ERROR, with a   *)
(* write burst that stays in writable registers and one that runs into     *)
(* the read-only ACCEL_XOUT_H                                              *)
(***************************************************************************)
MaxBurstOps == 4

(* the first registers of the write bursts: GYRO_CONFIG, followed by       *)
(* ACCEL_CONFIG, and the register before ACCEL_XOUT_H                      *)
BurstRegs == {MPU6050_GYRO_CONFIG, MPU6050_ACCEL_XOUT_H - 1}

InitBurst ==
    /\ Started
    /\ budget = MaxBurstOps
    /\ trace = NoTrace

NextBurst ==
    \/ i2c_simulator_add_device(0, 104, "mpu6050")
    \/ \E error \in {ERROR_INTERMITTENT, ERROR_BUS_ERROR}, probability \in {50, 100} :
          mpu6050_simulator_set_error_mode(104, error, probability)
    \/ \E rnd \in Draws(StateOf(104)) :
          \/ i2c_simulator_read_byte(0, 104, MPU6050_ACCEL_CONFIG, rnd)
          \/ i2c_simulator_write_byte(0, 104, MPU6050_ACCEL_CONFIG, 165, rnd)
    \/ \E rnds \in BurstDraws(StateOf(104), 2) :
          \/ i2c_simulator_read_burst(0, 104, MPU6050_GYRO_CONFIG, 2, rnds)
          \/ \E reg \in BurstRegs :
                i2c_simulator_write_burst(0, 104, reg, << 1, 2 >>, rnds)

SpecBurst == InitBurst /\ [][NextBurst]_vars

(* C34: under error mode INTERMITTENT the injection policy is the same for *)
(* every kind of transaction: on the same draws a register write fails     *)
(* with -EIO exactly when a register read does (primary draw triggered and *)
(* secondary roll hit), and a write transaction that returns an error      *)
(* under this mode returns -EIO.                                           *)
C34_IntermittentSameForWrites ==
    (StateOf(104).initialized /\ StateOf(104).error_mode = ERROR_INTERMITTENT) =>
        \A rnd \in Draws(StateOf(104)) :
            (WriteFault(StateOf(104), rnd) = -EIO)
               = (ReadFault(StateOf(104), rnd) = -EIO)

(* C40: a write_burst that returns an error, -EACCES from a read-only      *)
(* register in its range or a fault injected on a later byte, leaves the   *)
(* register map, the power state and the FIFO of the device unchanged.     *)
C40_FailedBurstCommitsNothing ==
    [][(last'.op = "write_burst" /\ last'.ret < 0) =>
          /\ StateOf(104)'.registers = StateOf(104).registers
          /\ StateOf(104)'.power_state = StateOf(104).power_state
          /\ StateOf(104)'.fifo = StateOf(104).fifo]_vars

(***************************************************************************)
(* Slots and the device states they refer to                               *)
(***************************************************************************)

(* the slots of a bus that find_device can return: below device_count and  *)
(* marked present                                                          *)
PresentSlots(bus) ==
    {i \in 0..(buses[bus].device_count - 1) : SlotOf(bus, i).present}

(* C36: add_device of a supported type at an address not present on the    *)
(* bus fails with -ENOMEM only when MAX_I2C_DEVICES devices are present on *)
(* that bus: slots freed by remove_device are used again.                  *)
C36_FreedSlotsReusable ==
    (/\ last.op = "add_device"
     /\ last.arg = << "mpu6050" >>
     /\ last.ret = -ENOMEM)
    => Cardinality(PresentSlots(last.bus)) >= MAX_I2C_DEVICES

(* C37: every slot marked present, on every bus, refers to a device state  *)
(* machine whose initialized flag is true, and a read or write of a        *)
(* present device that draws no fault does not return -ENODEV.             *)
C37_PresentSlotInitialized ==
    /\ \A bus \in 0..(I2C_BUS_COUNT - 1) : \A i \in PresentSlots(bus) :
          mpu6050_devices[SlotOf(bus, i).device_data].initialized
    /\ (/\ last.op \in {"read_byte", "write_byte"}
        /\ last.bus \in 0..(I2C_BUS_COUNT - 1)
        /\ find_device(buses, last.bus, last.address) # NULL
        /\ StateOf(last.address).error_mode = ERROR_NONE)
       => last.ret # -ENODEV

(* C38: a register write to one device leaves the state of a device        *)
(* registered at a different address, not congruent modulo                 *)
(* MAX_I2C_DEVICES, unchanged.                                             *)
C38_WriteLeavesOtherDevices ==
    [][last'.op = "write_byte" =>
          \A address \in LatchAddresses :
              (address % MAX_I2C_DEVICES # last'.address % MAX_I2C_DEVICES)
              => StateOf(address)' = StateOf(address)]_vars

(***************************************************************************)
(* Aliasing slots (SpecAlias): the address 0x68 registered on both buses   *)
(* and the address 0xE8, congruent to it modulo MAX_I2C_DEVICES, on bus 0  *)
(***************************************************************************)
MaxAliasOps == 4

(* the slots << bus, address >> that select mpu6050_devices[0x68], each    *)
(* with the byte written through it                                        *)
AliasSlots == {<< 0, 104, 165 >>, << 0, 232, 90 >>, << 1, 104, 60 >>}

InitAlias ==
    /\ Started
    /\ budget = MaxAliasOps
    /\ trace = NoTrace

NextAlias ==
    \/ \E s \in AliasSlots :
          \/ i2c_simulator_add_device(s[1], s[2], "mpu6050")
          \/ \E rnd \in Draws(StateOf(s[2])) :
                \/ i2c_simulator_write_byte(s[1], s[2], MPU6050_ACCEL_CONFIG, s[3], rnd)
                \/ i2c_simulator_write_byte(s[1], s[2], MPU6050_FIFO_R_W, s[3], rnd)
                \/ i2c_simulator_read_byte(s[1], s[2], MPU6050_ACCEL_CONFIG, rnd)
    \/ mpu6050_fifo_enable(104, TRUE)
    \/ mpu6050_simulator_set_error_mode(104, ERROR_BUS_ERROR, 0)

SpecAlias == InitAlias /\ [][NextAlias]_vars

(* a successful read of ACCEL_CONFIG through a slot other than the one of  *)
(* the previous call, whose address is congruent to it modulo              *)
(* MAX_I2C_DEVICES                                                         *)
ReadThroughOtherSlot ==
    /\ last'.op = "read_byte"
    /\ last'.reg = MPU6050_ACCEL_CONFIG
    /\ last'.ret = 0
    /\ << last'.bus, last'.address >> # << last.bus, last.address >>
    /\ last'.address % MAX_I2C_DEVICES = last.address % MAX_I2C_DEVICES

(* C35: the device state is selected by address modulo MAX_I2C_DEVICES     *)
(* only. A byte written to a register through one slot is read back        *)
(* through another slot of the same or the other bus whose address is      *)
(* congruent to it; a successful add_device leaves the state selected by   *)
(* its address as mpu6050_simulator_create builds it (registers at their   *)
(* defaults, FIFO empty and disabled, error mode NONE), also when a slot   *)
(* registered before refers to that state, and a read through that slot    *)
(* returns the default again.                                              *)
C35_AliasedSlotsShareState ==
    [][/\ (/\ last.op = "write_byte"
           /\ last.reg = MPU6050_ACCEL_CONFIG
           /\ last.ret = 0
           /\ ReadThroughOtherSlot)
          => last'.data = last.arg
       /\ (last'.op = "add_device" /\ last'.ret = 0)
          => mpu6050_devices'[last'.address % MAX_I2C_DEVICES] = CreatedState
       /\ (/\ last.op = "add_device"
           /\ last.ret = 0
           /\ ReadThroughOtherSlot)
          => last'.data = << RegGet(CreatedState.registers, MPU6050_ACCEL_CONFIG) >>]_vars

(* 165, written to ACCEL_CONFIG through the slot of 0x68 on bus 0 only, is *)
(* read back through the slot of 0xE8                                      *)
C35_Witness ==
    /\ last.op = "read_byte"
    /\ last.bus = 0
    /\ last.address = 232
    /\ last.ret = 0
    /\ last.data = << 165 >>

====
